---- MODULE Spec2Model ----
(***************************************************************************)
(* RepCRec: replicated concurrency control and recovery.                   *)
(*                                                                         *)
(* A model of repcrec.TransactionManager together with the Site,           *)
(* LockManager, DatabaseManager (in-memory cache), WaitDie and TxRecord    *)
(* classes it drives.  Python dicts are functions whose DOMAIN is the key  *)
(* set, Python lists whose order is never observed (lock holders) are      *)
(* sets, ordered lists are sequences, and None is the value None.          *)
(***************************************************************************)
EXTENDS Integers, Sequences, FiniteSets, TLC

(***************************************************************************)
(* Bounds of the model.                                                    *)
(***************************************************************************)
\* send_commands is called at most MaxTick times.
MaxTick == 2
\* At most MaxTx transactions are ever begun.
MaxTx == 3
\* At most MaxCmds steps are taken: calls of send_commands plus commands.
MaxCmds == 7
\* The bounds of the long batch (InitLong): ticks, transactions, steps.
LongTick == 1
LongTx == 3
LongCmds == 10
\* The bounds of the batch with two values to write (InitValues).
ValuesTick == 1
ValuesTx == 2
ValuesCmds == 6
\* The bounds of the batches with commands in error (InitErrors).
ErrorsTick == 2
ErrorsTx == 2
ErrorsCmds == 7
\* The bounds of the batches on x2 that leave time for a blocked operation to
\* be retried after the sites have changed (InitRetry).
RetryTick == 2
RetryTx == 2
RetryCmds == 8
\* The bounds of the batches on x1 in which a lock holder ends and the
\* waiting operation is retried at the next tick (InitRelease).
ReleaseTick == 2
ReleaseTx == 2
ReleaseCmds == 8
\* The bounds of the batches that write two different values to the
\* replicated x2 while the sites fail and recover (InitReplica).
ReplicaTick == 1
ReplicaTx == 2
ReplicaCmds == 9
\* Direct calls of DatabaseManager.batch_write (InitDb): the number of calls
\* and the longest list of pairs.
DbCalls == 3
BatchLen == 2
\* The steps of a DatabaseManager whose process may fail (InitFlush).
FlushSteps == 9

(***************************************************************************)
(* Configuration: the database that run_test.py builds, cut down to two    *)
(* sites and the variables x1 (hosted at site 1 only) and x2 (replicated). *)
(***************************************************************************)
None == -1
SiteIds == {1, 2}
VarIds == {1, 2}
TxIds == {1, 2}
WriteValues == {5, 6}

\* run_test.py: (0 == (x & 1)) or (index == (1 + (x / 2)))
Hosts(index, x) == (x % 2 = 0) \/ (index = 1 + (x \div 2))
\* run_test.py: dict((variable, 10 * variable) ...)
data_file_map ==
  [index \in SiteIds |->
     [x \in {v \in VarIds : Hosts(index, v)} |-> 10 * x]]

\* TransactionManager.__init__: variables hosted by exactly one site.
site_owned_vars(index) ==
  {x \in DOMAIN data_file_map[index] :
     \A other \in SiteIds : x \in DOMAIN data_file_map[other] => other = index}

\* TransactionManager.__init__: self._sites, in dict iteration order.
RECURSIVE SortedSeq(_)
SortedSeq(S) ==
  IF S = {} THEN <<>>
  ELSE LET m == CHOOSE a \in S : \A b \in S : a <= b
       IN  <<m>> \o SortedSeq(S \ {m})
AllSites == SortedSeq(SiteIds)

(***************************************************************************)
(* dict helpers                                                            *)
(***************************************************************************)
Put(f, k, v) == [a \in (DOMAIN f) \cup {k} |-> IF a = k THEN v ELSE f[a]]
Del(f, k) == [a \in (DOMAIN f) \ {k} |-> f[a]]
EmptyDict == [a \in {} |-> 0]

\* A local variable: Op applied to the value v, which is computed once.
With(v, Op(_)) == Op(v)

\* How a call ended: with no exception, or with the exception it raised.
\* send_commands catches none, so a command's exception ends the call.
NoError == "none"
ValueError == "ValueError"
RuntimeError == "RuntimeError"

(***************************************************************************)
(* LockManager                                                             *)
(***************************************************************************)
UNLOCKED == 0
R_LOCK == 1
RW_LOCK == 2

\* LockManager.get_locks
get_locks(lock_table, variable) ==
  IF variable \notin DOMAIN lock_table THEN <<>>
  ELSE <<lock_table[variable]>>

\* try_lock that promotes a reader to writer although others share the lock.
try_lock_promote_shared(lock_table, variable, txid, mode) ==
  LET lt0 == IF variable \notin DOMAIN lock_table
             THEN Put(lock_table, variable, [txids |-> {}, state |-> UNLOCKED])
             ELSE lock_table
      txids == lt0[variable].txids
      state == lt0[variable].state
  IN  IF txids = {}
      THEN [ok |-> TRUE,
            lock_table |-> Put(lt0, variable, [txids |-> {txid}, state |-> mode])]
      ELSE IF txid \in txids
      THEN IF mode = RW_LOCK
           THEN [ok |-> TRUE,
                 lock_table |-> Put(lt0, variable,
                                    [txids |-> txids, state |-> mode])]
           ELSE [ok |-> TRUE, lock_table |-> lt0]
      ELSE IF state = R_LOCK /\ mode = R_LOCK
      THEN [ok |-> TRUE,
            lock_table |-> Put(lt0, variable,
                               [txids |-> txids \cup {txid}, state |-> state])]
      ELSE [ok |-> FALSE, lock_table |-> lt0]

\* try_lock that refuses a read to a transaction that holds the write lock.
try_lock_no_read_under_write(lock_table, variable, txid, mode) ==
  LET lt0 == IF variable \notin DOMAIN lock_table
             THEN Put(lock_table, variable, [txids |-> {}, state |-> UNLOCKED])
             ELSE lock_table
      txids == lt0[variable].txids
      state == lt0[variable].state
  IN  IF txids = {}
      THEN [ok |-> TRUE,
            lock_table |-> Put(lt0, variable, [txids |-> {txid}, state |-> mode])]
      ELSE IF txid \in txids
      THEN IF mode = RW_LOCK
           THEN IF Cardinality(txids) = 1
                THEN [ok |-> TRUE,
                      lock_table |-> Put(lt0, variable,
                                         [txids |-> txids, state |-> mode])]
                ELSE [ok |-> FALSE, lock_table |-> lt0]
           ELSE [ok |-> state = R_LOCK, lock_table |-> lt0]
      ELSE IF state = R_LOCK /\ mode = R_LOCK
      THEN [ok |-> TRUE,
            lock_table |-> Put(lt0, variable,
                               [txids |-> txids \cup {txid}, state |-> state])]
      ELSE [ok |-> FALSE, lock_table |-> lt0]

\* LockManager.try_lock: returns the result and the new table.
try_lock(lock_table, variable, txid, mode) ==
  LET lt0 == IF variable \notin DOMAIN lock_table
             THEN Put(lock_table, variable, [txids |-> {}, state |-> UNLOCKED])
             ELSE lock_table
      txids == lt0[variable].txids
      state == lt0[variable].state
  IN  IF txids = {}
      THEN [ok |-> TRUE,
            lock_table |-> Put(lt0, variable, [txids |-> {txid}, state |-> mode])]
      ELSE IF txid \in txids
      THEN IF mode = RW_LOCK
           THEN IF Cardinality(txids) = 1
                THEN [ok |-> TRUE,
                      lock_table |-> Put(lt0, variable,
                                         [txids |-> txids, state |-> mode])]
                ELSE [ok |-> FALSE, lock_table |-> lt0]
           ELSE [ok |-> TRUE, lock_table |-> lt0]
      ELSE IF state = R_LOCK /\ mode = R_LOCK
      THEN [ok |-> TRUE,
            lock_table |-> Put(lt0, variable,
                               [txids |-> txids \cup {txid}, state |-> state])]
      ELSE [ok |-> FALSE, lock_table |-> lt0]

\* unlock that keeps the mode of an entry that lost its last holder.
unlock_keep_mode(lock_table, variable, txid) ==
  Put(lock_table, variable,
      [txids |-> lock_table[variable].txids \ {txid},
       state |-> lock_table[variable].state])

\* LockManager.unlock
unlock(lock_table, variable, txid) ==
  LET txids == lock_table[variable].txids \ {txid}
  IN  IF txids = {}
      THEN Put(lock_table, variable, [txids |-> {}, state |-> UNLOCKED])
      ELSE Put(lock_table, variable,
               [txids |-> txids, state |-> lock_table[variable].state])

\* unlock_all that frees every variable the transaction holds, whoever
\* shares the lock.
unlock_all_frees_variable(lock_table, txid) ==
  [variable \in DOMAIN lock_table |->
     IF txid \in lock_table[variable].txids
     THEN [txids |-> {}, state |-> UNLOCKED]
     ELSE lock_table[variable]]

\* LockManager.unlock_all
unlock_all(lock_table, txid) ==
  [variable \in DOMAIN lock_table |->
     IF txid \in lock_table[variable].txids
     THEN unlock(lock_table, variable, txid)[variable]
     ELSE lock_table[variable]]

(***************************************************************************)
(* DatabaseManager (the in-memory cache; every batch_write is flushed)     *)
(***************************************************************************)
\* DatabaseManager.read
db_read(cache, variable) == cache[variable]

\* DatabaseManager.has_variable
has_variable(cache, variable) == variable \in DOMAIN cache

\* DatabaseManager.batch_write, the second loop: self._cache[variable] = value
\* for the pairs in list order.
RECURSIVE update_cache(_, _)
update_cache(cache, values) ==
  IF values = <<>> THEN cache
  ELSE update_cache(Put(cache, Head(values)[1], Head(values)[2]),
                    Tail(values))

\* batch_write that checks each pair only when it comes to write it.
RECURSIVE batch_write_check_late(_, _)
batch_write_check_late(cache, values) ==
  IF values = <<>> THEN [raised |-> NoError, cache |-> cache]
  ELSE IF ~has_variable(cache, Head(values)[1])
  THEN [raised |-> ValueError, cache |-> cache]
  ELSE batch_write_check_late(
         Put(cache, Head(values)[1], Head(values)[2]), Tail(values))

\* DatabaseManager.batch_write: the exception raised, if any, and the cache
\* after the call.
batch_write(cache, values) ==
  IF \E i \in DOMAIN values : ~has_variable(cache, values[i][1])
  THEN [raised |-> ValueError, cache |-> cache]
  ELSE [raised |-> NoError, cache |-> update_cache(cache, values)]

\* DatabaseManager.multiversion_clone: a deep copy of the cache.
db_multiversion_clone(cache) == cache

\* A file of the data path: absent, or present with the text of a whole map
\* (whole), or present with a text that was cut short, the empty text that
\* open(path, 'w') leaves included.
NoFile == [exists |-> FALSE, whole |-> FALSE, data |-> EmptyDict]
WholeFile(cache) == [exists |-> TRUE, whole |-> TRUE, data |-> cache]
CutFile == [exists |-> TRUE, whole |-> FALSE, data |-> EmptyDict]

\* DatabaseManager._read: eval(data_file.read()) and the copy into the cache.
\* The text of a cut file is no expression: eval raises SyntaxError.
SyntaxError == "SyntaxError"
db_file_read(cache, file) ==
  IF ~file.whole THEN [raised |-> SyntaxError, cache |-> cache]
  ELSE IF \E x \in DOMAIN file.data : ~has_variable(cache, x)
  THEN [raised |-> ValueError, cache |-> cache]
  ELSE [raised |-> NoError,
        cache |-> [x \in DOMAIN cache |->
                     IF x \in DOMAIN file.data THEN file.data[x] ELSE cache[x]]]

\* DatabaseManager.recover: the standard file, else the temporary file, else
\* a new file.  Only IOError is caught.
db_recover(cache, dat, tmp) ==
  IF dat.exists
  THEN With(db_file_read(cache, dat), LAMBDA r :
         [raised |-> r.raised, cache |-> r.cache, dat |-> dat, tmp |-> tmp])
  ELSE IF tmp.exists
  THEN With(db_file_read(cache, tmp), LAMBDA r :
         IF r.raised # NoError
         THEN [raised |-> r.raised, cache |-> r.cache, dat |-> dat, tmp |-> tmp]
         ELSE [raised |-> NoError, cache |-> r.cache,
               dat |-> WholeFile(r.cache), tmp |-> NoFile])
  ELSE [raised |-> NoError, cache |-> cache, dat |-> WholeFile(cache),
        tmp |-> NoFile]

\* DatabaseManager.__init__ in an empty data path: the cache holds the
\* defaults and recover() has written the data file.
\*   pc: where the process is ("idle", inside _flush at "rename", "open",
\*   "dump", "remove", or "down" after a failure);
\*   before, flushing: the map persisted before the flush in progress and
\*   the map being flushed;  raised: how the last recover() ended.
Db_init(variables) ==
  [cache |-> variables, dat |-> WholeFile(variables), tmp |-> NoFile,
   pc |-> "idle", before |-> variables, flushing |-> variables,
   raised |-> NoError, recovered |-> FALSE, defaults |-> variables]

(***************************************************************************)
(* Site                                                                    *)
(***************************************************************************)
\* Site.__init__
Site_init(index, tick) ==
  [index |-> index,
   up_since |-> tick,
   available_variables |-> DOMAIN data_file_map[index],
   cache |-> data_file_map[index],
   lock_table |-> EmptyDict,
   pending_writes |-> EmptyDict,
   multiversion_clones |-> EmptyDict]

site_variables(site) == DOMAIN data_file_map[site.index]
\* A site that is told it owns nothing.
owned_nothing(site) == {}
\* Site.__init__: self._owned_variables
owned_variables(site) == site_owned_vars(site.index)

\* Site.is_up
is_up(site) == site.up_since # None

\* fail that also drops the snapshots of the site.
Site_fail_drops_snapshots(site) ==
  [site EXCEPT !.up_since = None,
               !.available_variables = {},
               !.lock_table = EmptyDict,
               !.pending_writes = EmptyDict,
               !.multiversion_clones = EmptyDict]

\* Site.fail
Site_fail(site) ==
  [site EXCEPT !.up_since = None,
               !.available_variables = {},
               !.lock_table = EmptyDict,
               !.pending_writes = EmptyDict]

\* Site.recover (the caller has checked that the site is down)
Site_recover(site, tick) == [site EXCEPT !.up_since = tick]

\* Site._release_multiversion_clone
release_multiversion_clone(site, txid, tick) ==
  LET use_count == site.multiversion_clones[tick].count - 1
  IN  IF use_count = 0
      THEN [site EXCEPT !.multiversion_clones = Del(@, tick)]
      ELSE [site EXCEPT !.multiversion_clones[tick].count = use_count]

\* abort that drops the pending writes and keeps the locks.
Site_abort_keeps_locks(site, txid, tick) ==
  LET s1 == [site EXCEPT
               !.pending_writes = IF txid \in DOMAIN @ THEN Del(@, txid) ELSE @]
  IN  IF tick # None THEN release_multiversion_clone(s1, txid, tick) ELSE s1

\* abort that writes the pending values to the store before it drops them.
Site_abort_installs(site, txid, tick) ==
  LET s1 == [site EXCEPT
               !.cache = IF txid \in DOMAIN site.pending_writes
                         THEN batch_write(@, site.pending_writes[txid]).cache
                         ELSE @,
               !.pending_writes = IF txid \in DOMAIN @ THEN Del(@, txid) ELSE @,
               !.lock_table = unlock_all(@, txid)]
  IN  IF tick # None THEN release_multiversion_clone(s1, txid, tick) ELSE s1

\* Site.abort
Site_abort(site, txid, tick) ==
  LET s1 == [site EXCEPT
               !.pending_writes = IF txid \in DOMAIN @ THEN Del(@, txid) ELSE @,
               !.lock_table = unlock_all(@, txid)]
  IN  IF tick # None THEN release_multiversion_clone(s1, txid, tick) ELSE s1

\* The variables of a list of (variable, value) pairs.
pending_vars(values) == {values[i][1] : i \in DOMAIN values}

\* commit that installs the values but leaves the available set as it was.
Site_commit_not_available(site, txid, tick) ==
  LET s1 == IF txid \in DOMAIN site.pending_writes
            THEN [site EXCEPT
                    !.cache = batch_write(@, site.pending_writes[txid]).cache,
                    !.pending_writes = Del(@, txid)]
            ELSE site
      s2 == [s1 EXCEPT !.lock_table = unlock_all(@, txid)]
  IN  IF tick # None THEN release_multiversion_clone(s2, txid, tick) ELSE s2

\* commit that installs the pending writes and keeps the locks.
Site_commit_keeps_locks(site, txid, tick) ==
  LET s1 == IF txid \in DOMAIN site.pending_writes
            THEN [site EXCEPT
                    !.cache = batch_write(@, site.pending_writes[txid]).cache,
                    !.available_variables =
                        @ \cup pending_vars(site.pending_writes[txid]),
                    !.pending_writes = Del(@, txid)]
            ELSE site
  IN  IF tick # None THEN release_multiversion_clone(s1, txid, tick) ELSE s1

\* Site.commit
Site_commit(site, txid, tick) ==
  LET s1 == IF txid \in DOMAIN site.pending_writes
            THEN [site EXCEPT
                    !.cache = batch_write(@, site.pending_writes[txid]).cache,
                    !.available_variables =
                        @ \cup pending_vars(site.pending_writes[txid]),
                    !.pending_writes = Del(@, txid)]
            ELSE site
      s2 == [s1 EXCEPT !.lock_table = unlock_all(@, txid)]
  IN  IF tick # None THEN release_multiversion_clone(s2, txid, tick) ELSE s2

\* Site.try_read, the loop over the caller's pending writes: the first pair
\* for the variable, None when there is none.
RECURSIVE first_pending(_, _)
first_pending(values, variable) ==
  IF values = <<>> THEN None
  ELSE IF Head(values)[1] = variable THEN Head(values)[2]
  ELSE first_pending(Tail(values), variable)

\* OperationStatus and the other outcomes of try_read / try_write:
\*   "ioerror" the site is down, "none" the site does not serve the variable,
\*   "ok" success, "conflict" no lock (waits_for = the holders).
Status(kind, value, waits_for, site) ==
  [kind |-> kind, value |-> value, waits_for |-> waits_for, site |-> site]

\* try_read that serves a replicated variable whether or not it is available.
try_read_not_gated(site, txid, variable, tick) ==
  IF tick = None /\ ~is_up(site)
  THEN Status("ioerror", None, {}, site)
  ELSE IF variable \notin site_variables(site)
  THEN Status("none", None, {}, site)
  ELSE IF tick # None
  THEN Status("ok", site.multiversion_clones[tick].clone[variable], {}, site)
  ELSE LET pend == IF txid \in DOMAIN site.pending_writes
                   THEN first_pending(site.pending_writes[txid], variable)
                   ELSE None
           value == IF pend # None THEN pend ELSE db_read(site.cache, variable)
       IN  With(try_lock(site.lock_table, variable, txid, R_LOCK), LAMBDA l :
             IF l.ok
             THEN Status("ok", value, {},
                         [site EXCEPT !.lock_table = l.lock_table])
             ELSE Status("conflict", None,
                         get_locks(site.lock_table, variable)[1].txids, site))

\* try_read that refuses every caller while the site is down, the readers of
\* a snapshot included.
try_read_snapshot_needs_site(site, txid, variable, tick) ==
  IF ~is_up(site)
  THEN Status("ioerror", None, {}, site)
  ELSE IF variable \notin site_variables(site)
  THEN Status("none", None, {}, site)
  ELSE IF tick # None
  THEN Status("ok", site.multiversion_clones[tick].clone[variable], {}, site)
  ELSE IF variable \notin owned_variables(site)
          /\ variable \notin site.available_variables
  THEN Status("none", None, {}, site)
  ELSE LET pend == IF txid \in DOMAIN site.pending_writes
                   THEN first_pending(site.pending_writes[txid], variable)
                   ELSE None
           value == IF pend # None THEN pend ELSE db_read(site.cache, variable)
       IN  With(try_lock(site.lock_table, variable, txid, R_LOCK), LAMBDA l :
             IF l.ok
             THEN Status("ok", value, {},
                         [site EXCEPT !.lock_table = l.lock_table])
             ELSE Status("conflict", None,
                         get_locks(site.lock_table, variable)[1].txids, site))

\* Site.try_read
try_read(site, txid, variable, tick) ==
  IF tick = None /\ ~is_up(site)
  THEN Status("ioerror", None, {}, site)
  ELSE IF variable \notin site_variables(site)
  THEN Status("none", None, {}, site)
  ELSE IF tick # None
  THEN \* the clone exists: it was taken at beginRO and not yet released
       Status("ok", site.multiversion_clones[tick].clone[variable], {}, site)
  ELSE IF variable \notin owned_variables(site)
          /\ variable \notin site.available_variables
  THEN Status("none", None, {}, site)
  ELSE LET pend == IF txid \in DOMAIN site.pending_writes
                   THEN first_pending(site.pending_writes[txid], variable)
                   ELSE None
           value == IF pend # None THEN pend ELSE db_read(site.cache, variable)
       IN  With(try_lock(site.lock_table, variable, txid, R_LOCK), LAMBDA l :
             IF l.ok
             THEN Status("ok", value, {},
                         [site EXCEPT !.lock_table = l.lock_table])
             ELSE Status("conflict", None,
                         get_locks(site.lock_table, variable)[1].txids, site))

\* try_write without the check that the site is up.
try_write_while_down(site, txid, variable, value) ==
  IF variable \notin site_variables(site)
  THEN Status("none", None, {}, site)
  ELSE LET old == IF txid \in DOMAIN site.pending_writes
                  THEN site.pending_writes[txid] ELSE <<>>
       IN  With(try_lock(site.lock_table, variable, txid, RW_LOCK), LAMBDA l :
             IF l.ok
             THEN Status("ok", value, {},
                         [site EXCEPT
                            !.lock_table = l.lock_table,
                            !.pending_writes =
                                Put(@, txid, Append(old, <<variable, value>>))])
             ELSE Status("conflict", value,
                         get_locks(site.lock_table, variable)[1].txids, site))

\* Site.try_write
try_write(site, txid, variable, value) ==
  IF ~is_up(site)
  THEN Status("ioerror", None, {}, site)
  ELSE IF variable \notin site_variables(site)
  THEN Status("none", None, {}, site)
  ELSE LET old == IF txid \in DOMAIN site.pending_writes
                  THEN site.pending_writes[txid] ELSE <<>>
       IN  With(try_lock(site.lock_table, variable, txid, RW_LOCK), LAMBDA l :
             IF l.ok
             THEN Status("ok", value, {},
                         [site EXCEPT
                            !.lock_table = l.lock_table,
                            !.pending_writes =
                                Put(@, txid, Append(old, <<variable, value>>))])
             ELSE Status("conflict", value,
                         get_locks(site.lock_table, variable)[1].txids, site))

\* multiversion_clone that copies the store with the pending writes of a
\* transaction applied.
Site_multiversion_clone_with_pending(site, tick) ==
  LET pend == IF DOMAIN site.pending_writes = {} THEN <<>>
              ELSE site.pending_writes[
                     CHOOSE t \in DOMAIN site.pending_writes : TRUE]
  IN  IF tick \notin DOMAIN site.multiversion_clones
      THEN [site EXCEPT !.multiversion_clones =
              Put(@, tick, [count |-> 1,
                            clone |-> update_cache(site.cache, pend)])]
      ELSE [site EXCEPT !.multiversion_clones[tick].count = @ + 1]

\* Site.multiversion_clone (the caller passes running sites only)
Site_multiversion_clone(site, tick) ==
  IF tick \notin DOMAIN site.multiversion_clones
  THEN [site EXCEPT !.multiversion_clones =
          Put(@, tick, [count |-> 1, clone |-> db_multiversion_clone(site.cache)])]
  ELSE [site EXCEPT !.multiversion_clones[tick].count = @ + 1]

(***************************************************************************)
(* WaitDie                                                                 *)
(***************************************************************************)
\* WaitDie.__init__: self._oldest_blocker = 1 << 31.  The model uses the
\* largest integer TLC has, 2^31 - 1; every start_time is far below both.
OldestInit == 2147483647

\* WaitDie.__init__; seen collects the (start_time, txid) tuple of every
\* blocker that was appended.
WaitDie(tx_tick) ==
  [tx_tick |-> tx_tick, oldest_blocker |-> OldestInit, blocked_by |-> None,
   seen |-> {}]

\* min() over (start_time, txid) tuples.
TupleLess(a, b) == a[1] < b[1] \/ (a[1] = b[1] /\ a[2] <= b[2])
TupleMin(S) == CHOOSE a \in S : \A b \in S : TupleLess(a, b)

\* WaitDie.append_blockers
append_blockers(wait_die, waits_for, open_tx) ==
  LET tuples == {<<open_tx[t].start_time, t>> : t \in waits_for}
      m == TupleMin(tuples)
      wd1 == [wait_die EXCEPT !.seen = @ \cup tuples]
  IN  IF m[1] < wait_die.oldest_blocker
      THEN [wd1 EXCEPT !.oldest_blocker = m[1], !.blocked_by = m[2]]
      ELSE wd1

\* should_die with the comparison reversed: the older transaction dies.
should_die_reversed(wait_die) == wait_die.tx_tick < wait_die.oldest_blocker

\* WaitDie.should_die
should_die(wait_die) == wait_die.tx_tick > wait_die.oldest_blocker

(***************************************************************************)
(* TxRecord                                                                *)
(***************************************************************************)
\* TxRecord.__init__; blocked is <<>> for None, else the stored (cmd, args).
TxRecord(txid, start_time, tx_sites, is_ro) ==
  [txid |-> txid, start_time |-> start_time, sites_accessed |-> EmptyDict,
   alive |-> TRUE, blocked |-> <<>>, ended |-> FALSE,
   sites |-> tx_sites, is_ro |-> is_ro]

\* TxRecord.is_read_only, used for its truth value.
is_read_only(tx) == tx.is_ro # None /\ tx.is_ro # 0

\* TxRecord.site_accessed_at
site_accessed_at(tx, index) ==
  IF index \in DOMAIN tx.sites_accessed THEN tx.sites_accessed[index] ELSE None

\* mark_site_accessed that stamps the access with the tick before.
mark_site_accessed_tick_before(tx, index, tick) ==
  IF index \notin DOMAIN tx.sites_accessed
  THEN [tx EXCEPT !.sites_accessed = Put(@, index, tick - 1)]
  ELSE tx

\* mark_site_accessed that records the tick of the latest access.
mark_site_accessed_latest(tx, index, tick) ==
  [tx EXCEPT !.sites_accessed = Put(@, index, tick)]

\* TxRecord.mark_site_accessed
mark_site_accessed(tx, index, tick) ==
  IF index \notin DOMAIN tx.sites_accessed
  THEN [tx EXCEPT !.sites_accessed = Put(@, index, tick)]
  ELSE tx

(***************************************************************************)
(* TransactionManager                                                      *)
(***************************************************************************)
VARIABLES
  tick,              \* TransactionManager._tick
  sites,             \* TransactionManager._sites, by site index
  open_tx,           \* TransactionManager._open_tx
  blocked_queue,     \* TransactionManager._blocked_queue (txids, in order)
  commit_abort_log,  \* TransactionManager._commit_abort_log
  out,               \* the lines logged by the last command or tick
  tx_wrote,          \* history: txid -> variable -> value of its last write
  committed_val,     \* history: variable -> value of the last committed write
  ro_view,           \* history: txid -> committed_val at its beginRO
  failed_since,      \* history: txid -> accessed sites that failed afterwards
  tx_read,           \* history: txid -> the variables it has read
  wrote_at,          \* history: txid -> variable -> sites up since its last write
  gate,              \* history: site -> replicated variables with no commit
                     \*          at the site since the site recovered
  raised,            \* the exception that ended the running send_commands
  failed_cmd,        \* the command that raised it: <<cmd, txid>>, else <<>>
  blocked_by,        \* history: txid -> the lock holders its operation waits for
  last_batch,        \* the pairs of the last direct call of batch_write
  db,                \* a DatabaseManager with its two files and its process
  ncmds,             \* history: the number of steps taken so far
  workload           \* the commands the client may send (never changes)

vars == <<tick, sites, open_tx, blocked_queue, commit_abort_log, out,
          tx_wrote, committed_val, ro_view, failed_since, tx_read, wrote_at,
          gate, raised, failed_cmd, blocked_by, last_batch, db, ncmds,
          workload>>

COMMITTED == 0
ABORTED == 1

\* The whole state as one value, so that handlers compose.
Cur ==
  [tick |-> tick, sites |-> sites, open_tx |-> open_tx,
   blocked_queue |-> blocked_queue, commit_abort_log |-> commit_abort_log,
   out |-> out, tx_wrote |-> tx_wrote, committed_val |-> committed_val,
   ro_view |-> ro_view, failed_since |-> failed_since,
   tx_read |-> tx_read, wrote_at |-> wrote_at, gate |-> gate,
   raised |-> raised, failed_cmd |-> failed_cmd, blocked_by |-> blocked_by]

Install(w) ==
  /\ tick' = w.tick
  /\ sites' = w.sites
  /\ open_tx' = w.open_tx
  /\ blocked_queue' = w.blocked_queue
  /\ commit_abort_log' = w.commit_abort_log
  /\ out' = w.out
  /\ tx_wrote' = w.tx_wrote
  /\ committed_val' = w.committed_val
  /\ ro_view' = w.ro_view
  /\ failed_since' = w.failed_since
  /\ tx_read' = w.tx_read
  /\ wrote_at' = w.wrote_at
  /\ gate' = w.gate
  /\ raised' = w.raised
  /\ failed_cmd' = w.failed_cmd
  /\ blocked_by' = w.blocked_by
  /\ ncmds < workload.cmds
  /\ ncmds' = ncmds + 1
  /\ UNCHANGED <<workload, last_batch, db>>

\* TransactionManager._log_at_time: one logged line.
\*   seen/age: the blockers collected by wait-die and the oldest start_time.
Line(ev, tx, variable, value, site, wait_die) ==
  [ev |-> ev, txid |-> tx.txid, start_time |-> tx.start_time,
   ro |-> is_read_only(tx), variable |-> variable, value |-> value,
   retry |-> FALSE,
   site |-> site, seen |-> wait_die.seen, by |-> wait_die.blocked_by,
   age |-> wait_die.oldest_blocker]
NoWaitDie == WaitDie(0)
Log(w, line) == [w EXCEPT !.out = Append(@, line)]

\* The writes a commit of txid installs, as the history sees them.
InstallWrites(cv, wrote) ==
  [x \in DOMAIN cv |-> IF x \in DOMAIN wrote THEN wrote[x] ELSE cv[x]]

\* The check of the sites accessed that also aborts when the site came up in
\* the tick of the first access.
must_abort_not_strict(w, tx) ==
  \E i \in DOMAIN tx.sites :
    LET site == w.sites[tx.sites[i]]
        accessed_at_tick == site_accessed_at(tx, site.index)
    IN  /\ accessed_at_tick # None
        /\ \/ ~is_up(site)
           \/ site.up_since >= accessed_at_tick

\* TransactionManager._end, the check of the sites accessed (lines 187-213).
must_abort(w, tx) ==
  \E i \in DOMAIN tx.sites :
    LET site == w.sites[tx.sites[i]]
        accessed_at_tick == site_accessed_at(tx, site.index)
    IN  /\ accessed_at_tick # None
        /\ \/ ~is_up(site)
           \/ site.up_since > accessed_at_tick

\* TransactionManager._end
end_tx(w, tx) ==
  LET ro_token == IF is_read_only(tx) THEN tx.start_time ELSE None
      do_commit == /\ tx.alive
                   /\ (is_read_only(tx) \/ ~must_abort(w, tx))
      in_tx_sites(index) == \E i \in DOMAIN tx.sites : tx.sites[i] = index
      new_sites ==
        [index \in DOMAIN w.sites |->
           IF in_tx_sites(index) /\ is_up(w.sites[index])
           THEN IF do_commit
                THEN Site_commit(w.sites[index], tx.txid, ro_token)
                ELSE Site_abort(w.sites[index], tx.txid, ro_token)
           ELSE w.sites[index]]
      w1 == [w EXCEPT
               !.open_tx = Del(@, tx.txid),
               !.sites = new_sites,
               !.commit_abort_log =
                  Append(@, <<tx.txid, tx.start_time,
                              IF do_commit THEN COMMITTED ELSE ABORTED>>),
               !.committed_val =
                  IF do_commit THEN InstallWrites(@, w.tx_wrote[tx.txid])
                  ELSE @,
               !.gate =
                  [index \in DOMAIN @ |->
                     IF /\ do_commit /\ in_tx_sites(index)
                        /\ is_up(w.sites[index])
                        /\ tx.txid \in DOMAIN w.sites[index].pending_writes
                     THEN @[index] \ pending_vars(
                                        w.sites[index].pending_writes[tx.txid])
                     ELSE @[index]]]
  IN  Log(w1, Line(IF do_commit THEN "committed" ELSE "aborted",
                   tx, None, None, {}, NoWaitDie))

\* The loop of _read that does not count the sites that are down.
RECURSIVE read_scan_forgets_down(_, _, _, _, _)
read_scan_forgets_down(w, tx, variable, i, acc) ==
  IF i > Len(tx.sites) THEN acc
  ELSE
    LET index == tx.sites[i]
        ro_token == IF is_read_only(tx) THEN tx.start_time ELSE None
    IN  With(try_read(w.sites[index], tx.txid, variable, ro_token), LAMBDA st :
          CASE st.kind = "ok" ->
                 [acc EXCEPT !.found = TRUE, !.index = index, !.status = st]
            [] st.kind = "conflict" ->
                 read_scan_forgets_down(w, tx, variable, i + 1,
                   [acc EXCEPT !.blocked = TRUE,
                               !.wait_die = append_blockers(@, st.waits_for,
                                                            w.open_tx)])
            [] OTHER -> read_scan_forgets_down(w, tx, variable, i + 1, acc))

\* TransactionManager._read, the loop over transaction.sites (lines 277-302):
\* stops at the first site that grants the read.
RECURSIVE read_scan(_, _, _, _, _)
read_scan(w, tx, variable, i, acc) ==
  IF i > Len(tx.sites) THEN acc
  ELSE
    LET index == tx.sites[i]
        ro_token == IF is_read_only(tx) THEN tx.start_time ELSE None
    IN  With(try_read(w.sites[index], tx.txid, variable, ro_token), LAMBDA st :
          CASE st.kind = "none" -> read_scan(w, tx, variable, i + 1, acc)
            [] st.kind = "ok" ->
                 [acc EXCEPT !.found = TRUE, !.index = index, !.status = st]
            [] st.kind = "conflict" ->
                 read_scan(w, tx, variable, i + 1,
                   [acc EXCEPT !.blocked = TRUE,
                               !.wait_die = append_blockers(@, st.waits_for,
                                                            w.open_tx)])
            [] st.kind = "ioerror" ->
                 read_scan(w, tx, variable, i + 1,
                   [acc EXCEPT !.num_down = @ + 1]))

\* TransactionManager._read: returns the new state and the returned status.
read_tx(w, tx, variable) ==
  IF ~tx.alive
  THEN [w |-> Log(w, Line("ignoring", tx, variable, None, {}, NoWaitDie)),
        ret |-> TRUE]
  ELSE
    With(read_scan(w, tx, variable, 1,
               [found |-> FALSE, index |-> None,
                status |-> Status("none", None, {}, None),
                blocked |-> FALSE, num_down |-> 0,
                wait_die |-> WaitDie(tx.start_time)]), LAMBDA r :
        IF r.found
        THEN [w |-> Log([w EXCEPT
                           !.tx_read[tx.txid] = @ \cup {variable},
                           !.sites[r.index] = r.status.site,
                           !.open_tx[tx.txid] =
                               mark_site_accessed(tx, r.index, w.tick)],
                        Line("read", tx, variable, r.status.value, {r.index},
                             r.wait_die)),
              ret |-> TRUE]
        ELSE IF r.blocked
        THEN IF should_die(r.wait_die)
             THEN [w |-> end_tx(Log(w, Line("kill_wait_die", tx, variable,
                                            None, {}, r.wait_die)),
                                [tx EXCEPT !.alive = FALSE]),
                   ret |-> TRUE]
             ELSE [w |-> Log(w, Line("blocked", tx, variable, None, {},
                                     r.wait_die)),
                   ret |-> FALSE]
        ELSE IF r.num_down > 0
        THEN [w |-> Log(w, Line("waiting", tx, variable, None, {},
                                r.wait_die)),
              ret |-> FALSE]
        ELSE [w |-> end_tx(Log(w, Line("kill_unavailable", tx, variable,
                                       None, {}, r.wait_die)),
                           [tx EXCEPT !.alive = FALSE]),
              ret |-> TRUE])

\* The sites that host the variable and are up.
UpHosts(w, variable) ==
  {index \in SiteIds : /\ variable \in site_variables(w.sites[index])
                       /\ is_up(w.sites[index])}

\* The loop of _write that stops at the first site that takes the write.
RECURSIVE write_scan_first_copy_only(_, _, _, _, _, _)
write_scan_first_copy_only(w, txid, variable, value, i, acc) ==
  LET tx == acc.tx
  IN  IF i > Len(tx.sites) THEN acc
      ELSE
        LET index == tx.sites[i]
        IN  With(try_write(acc.sites[index], txid, variable, value), LAMBDA st :
            CASE st.kind = "ok" ->
                   [acc EXCEPT
                      !.sites[index] = st.site,
                      !.tx = mark_site_accessed(@, index, w.tick),
                      !.sites_written = @ \cup {index}]
              [] st.kind = "conflict" ->
                   write_scan_first_copy_only(w, txid, variable, value, i + 1,
                     [acc EXCEPT
                        !.blocked = TRUE,
                        !.wait_die = append_blockers(@, st.waits_for,
                                                     w.open_tx)])
              [] OTHER ->
                   write_scan_first_copy_only(w, txid, variable, value, i + 1,
                                              acc))

\* TransactionManager._write, the loop over transaction.sites (lines 386-407):
\* every site is tried.
RECURSIVE write_scan(_, _, _, _, _, _)
write_scan(w, txid, variable, value, i, acc) ==
  LET tx == acc.tx
  IN  IF i > Len(tx.sites) THEN acc
      ELSE
        LET index == tx.sites[i]
        IN  With(try_write(acc.sites[index], txid, variable, value), LAMBDA st :
            CASE st.kind = "none" ->
                   write_scan(w, txid, variable, value, i + 1, acc)
              [] st.kind = "ok" ->
                   write_scan(w, txid, variable, value, i + 1,
                     [acc EXCEPT
                        !.sites[index] = st.site,
                        !.tx = mark_site_accessed(@, index, w.tick),
                        !.sites_written = @ \cup {index}])
              [] st.kind = "conflict" ->
                   write_scan(w, txid, variable, value, i + 1,
                     [acc EXCEPT
                        !.blocked = TRUE,
                        !.wait_die = append_blockers(@, st.waits_for,
                                                     w.open_tx)])
              [] st.kind = "ioerror" ->
                   write_scan(w, txid, variable, value, i + 1, acc))

\* TransactionManager._write: returns the new state and the returned status.
write_tx(w, tx, variable, value) ==
  IF ~tx.alive
  THEN [w |-> Log(w, Line("ignoring", tx, variable, value, {}, NoWaitDie)),
        ret |-> TRUE]
  ELSE
    With(write_scan(w, tx.txid, variable, value, 1,
               [sites |-> w.sites, tx |-> tx, sites_written |-> {},
                blocked |-> FALSE, wait_die |-> WaitDie(tx.start_time)]),
         LAMBDA r :
    LET w1 == [w EXCEPT !.sites = r.sites, !.open_tx[tx.txid] = r.tx]
    IN  IF r.blocked
        THEN IF should_die(r.wait_die)
             THEN [w |-> end_tx(Log(w1, Line("kill_wait_die", tx, variable,
                                             value, {}, r.wait_die)),
                                [r.tx EXCEPT !.alive = FALSE]),
                   ret |-> TRUE]
             ELSE [w |-> Log(w1, Line("blocked", tx, variable, value, {},
                                      r.wait_die)),
                   ret |-> FALSE]
        ELSE IF r.sites_written # {}
        THEN [w |-> Log([w1 EXCEPT
                           !.tx_wrote[tx.txid] = Put(@, variable, value),
                           !.wrote_at[tx.txid] =
                               Put(@, variable, UpHosts(w1, variable))],
                        Line("write", tx, variable, value, r.sites_written,
                             r.wait_die)),
              ret |-> TRUE]
        ELSE [w |-> Log(w1, Line("waiting", tx, variable, value, {},
                                 r.wait_die)),
              ret |-> FALSE])

\* The history of the reason of a block: the holders that the last logged
\* line names when it reports a lock conflict, none when it reports that no
\* site is available.
note_blockers(w, txid) ==
  LET last == w.out[Len(w.out)]
  IN  [w EXCEPT !.blocked_by[txid] =
         IF last.ev = "blocked" THEN {p[2] : p \in last.seen} ELSE {}]

\* TransactionManager._block
block(w, txid, cmd_args) ==
  [note_blockers(w, txid) EXCEPT
     !.open_tx[txid].blocked = cmd_args,
     !.blocked_queue =
        IF \E i \in DOMAIN @ : @[i] = txid THEN @ ELSE Append(@, txid)]

\* The stored runner of a blocked transaction: _read or _write with the
\* arguments of the blocked command.
\* The lines it logs are marked as logged by a retry.
run_blocked(w, tx) ==
  With(IF tx.blocked[1] = "r"
       THEN read_tx(w, tx, tx.blocked[2])
       ELSE write_tx(w, tx, tx.blocked[2], tx.blocked[3]),
       LAMBDA r :
         [r EXCEPT !.w = [note_blockers(@, tx.txid) EXCEPT
                            !.out = [k \in DOMAIN @ |->
                                       IF k > Len(w.out)
                                       THEN [@[k] EXCEPT !.retry = TRUE]
                                       ELSE @[k]]]])

\* The loop over the blocked queue run from the newest entry to the oldest.
RECURSIVE retry_blocked_newest_first(_, _)
retry_blocked_newest_first(w, i) ==
  IF i > Len(w.blocked_queue) THEN w
  ELSE
    LET txid == w.blocked_queue[Len(w.blocked_queue) + 1 - i]
        tx == w.open_tx[txid]
    IN  IF tx.blocked # <<>>
        THEN With(run_blocked(w, tx), LAMBDA r :
               IF r.ret
               THEN retry_blocked_newest_first(
                      IF txid \in DOMAIN r.w.open_tx
                      THEN [r.w EXCEPT !.open_tx[txid].blocked = <<>>]
                      ELSE r.w,
                      i + 1)
               ELSE retry_blocked_newest_first(r.w, i + 1))
        ELSE retry_blocked_newest_first(w, i + 1)

\* TransactionManager.send_commands, the loop over the blocked queue
\* (lines 564-568).
RECURSIVE retry_blocked(_, _)
retry_blocked(w, i) ==
  IF i > Len(w.blocked_queue) THEN w
  ELSE
    LET txid == w.blocked_queue[i]
        tx == w.open_tx[txid]
    IN  IF tx.blocked # <<>>
        THEN With(run_blocked(w, tx), LAMBDA r :
               IF r.ret
               THEN retry_blocked(
                      IF txid \in DOMAIN r.w.open_tx
                      THEN [r.w EXCEPT !.open_tx[txid].blocked = <<>>]
                      ELSE r.w,
                      i + 1)
               ELSE retry_blocked(r.w, i + 1))
        ELSE retry_blocked(w, i + 1)

\* send_commands that retries and leaves the blocked queue as it is.
send_commands_head_keeps_queue(w) ==
  retry_blocked([w EXCEPT !.tick = @ + 1, !.out = <<>>], 1)

\* TransactionManager.send_commands up to the loop over the commands
\* (lines 559-572): advance the tick, retry, drop what is no longer blocked.
send_commands_head(w) ==
  With(retry_blocked([w EXCEPT !.tick = @ + 1, !.out = <<>>], 1), LAMBDA w1 :
    LET still(txid) == /\ txid \in DOMAIN w1.open_tx
                       /\ w1.open_tx[txid].blocked # <<>>
    IN  [w1 EXCEPT !.blocked_queue = SelectSeq(@, still)])

(***************************************************************************)
(* The commands.  send_commands advances the tick and retries the blocked  *)
(* queue (SendCommands); each command of the batch is then one step.       *)
(***************************************************************************)
\* A line logged for a site (txid '--').
SiteLine(ev, index) ==
  [ev |-> ev, txid |-> None, start_time |-> None, ro |-> FALSE,
   variable |-> None, value |-> None, retry |-> FALSE, site |-> {index},
   seen |-> {}, by |-> None, age |-> OldestInit]

in_blocked_queue(txid) == \E i \in DOMAIN blocked_queue : blocked_queue[i] = txid

\* TransactionManager.__init__, for a client that sends the given workload.
Start(w) ==
  /\ tick = 0
  /\ sites = [index \in SiteIds |-> Site_init(index, 0)]
  /\ open_tx = EmptyDict
  /\ blocked_queue = <<>>
  /\ commit_abort_log = <<>>
  /\ out = <<>>
  /\ tx_wrote = [t \in TxIds |-> EmptyDict]
  /\ committed_val = [x \in VarIds |-> 10 * x]
  /\ ro_view = [t \in TxIds |-> EmptyDict]
  /\ failed_since = [t \in TxIds |-> {}]
  /\ tx_read = [t \in TxIds |-> {}]
  /\ wrote_at = [t \in TxIds |-> EmptyDict]
  /\ gate = [index \in SiteIds |-> {}]
  /\ raised = NoError
  /\ failed_cmd = <<>>
  /\ blocked_by = [t \in TxIds |-> {}]
  /\ last_batch = <<>>
  /\ db = Db_init(data_file_map[1])
  /\ ncmds = 0
  /\ workload = w

\* Any commands on any variable, a few of them.
Init ==
  Start([variables |-> VarIds, values |-> {5}, ticks |-> MaxTick,
         txs |-> MaxTx, cmds |-> MaxCmds])

\* One long batch of commands, all on the same variable.
InitLong ==
  \E variable \in VarIds :
    Start([variables |-> {variable}, values |-> {5}, ticks |-> LongTick,
           txs |-> LongTx, cmds |-> LongCmds])

\* A short batch on one variable that writes two different values.
InitValues ==
  \E variable \in VarIds :
    Start([variables |-> {variable}, values |-> WriteValues,
           ticks |-> ValuesTick, txs |-> ValuesTx, cmds |-> ValuesCmds])

\* Batches on the replicated x2, long enough for the sites to fail and
\* recover between an operation and its retry.
InitRetry ==
  Start([variables |-> {2}, values |-> {5}, ticks |-> RetryTick,
         txs |-> RetryTx, cmds |-> RetryCmds])

\* Batches on x1, which site 1 alone hosts, long enough for a holder to end
\* and the waiting operation to be retried.
InitRelease ==
  Start([variables |-> {1}, values |-> {5}, ticks |-> ReleaseTick,
         txs |-> ReleaseTx, cmds |-> ReleaseCmds])

\* One batch on the replicated x2 that writes two different values, long
\* enough for a site to fail, recover and receive a committed write.
InitReplica ==
  Start([variables |-> {2}, values |-> WriteValues, ticks |-> ReplicaTick,
         txs |-> ReplicaTx, cmds |-> ReplicaCmds])

\* Batches in which any command may be in error.
InitErrors ==
  Start([variables |-> VarIds, values |-> {5}, ticks |-> ErrorsTick,
         txs |-> ErrorsTx, cmds |-> ErrorsCmds])

\* send_commands: a new batch arrives.
SendCommands ==
  /\ tick < workload.ticks
  /\ Install(send_commands_head([Cur EXCEPT !.raised = NoError,
                                            !.failed_cmd = <<>>]))

\* TransactionManager._begin(is_ro=False)
Begin(txid) ==
  /\ tick >= 1
  /\ raised = NoError
  /\ txid \notin DOMAIN open_tx
  /\ Len(commit_abort_log) + Cardinality(DOMAIN open_tx) < workload.txs
  /\ LET tx == TxRecord(txid, tick, AllSites, None)
     IN  Install([Cur EXCEPT
           !.open_tx = Put(@, txid, tx),
           !.tx_wrote[txid] = EmptyDict,
           !.ro_view[txid] = EmptyDict,
           !.failed_since[txid] = {},
           !.tx_read[txid] = {},
           !.wrote_at[txid] = EmptyDict,
           !.out = <<Line("started", tx, None, None, {}, NoWaitDie)>>])

\* TransactionManager._beginro
BeginRO(txid) ==
  /\ tick >= 1
  /\ raised = NoError
  /\ txid \notin DOMAIN open_tx
  /\ Len(commit_abort_log) + Cardinality(DOMAIN open_tx) < workload.txs
  /\ LET running(index) == is_up(sites[index])
         tx == TxRecord(txid, tick, SelectSeq(AllSites, running), tick)
     IN  Install([Cur EXCEPT
           !.sites = [index \in SiteIds |->
                        IF running(index)
                        THEN Site_multiversion_clone(sites[index], tick)
                        ELSE sites[index]],
           !.open_tx = Put(@, txid, tx),
           !.tx_wrote[txid] = EmptyDict,
           !.ro_view[txid] = committed_val,
           !.failed_since[txid] = {},
           !.tx_read[txid] = {},
           !.wrote_at[txid] = EmptyDict,
           !.out = <<Line("started_ro", tx, None, None, {}, NoWaitDie)>>])

\* TransactionManager._append_end
AppendEnd(txid) ==
  /\ tick >= 1
  /\ raised = NoError
  /\ txid \in DOMAIN open_tx
  /\ ~in_blocked_queue(txid)
  /\ Install(end_tx([Cur EXCEPT !.out = <<>>], open_tx[txid]))

\* TransactionManager._append_read
AppendRead(txid, variable) ==
  /\ tick >= 1
  /\ raised = NoError
  /\ variable \in workload.variables
  /\ txid \in DOMAIN open_tx
  /\ ~in_blocked_queue(txid)
  /\ With(read_tx([Cur EXCEPT !.out = <<>>], open_tx[txid], variable),
          LAMBDA r :
            Install(IF r.ret THEN r.w ELSE block(r.w, txid, <<"r", variable>>)))

\* TransactionManager._append_write
AppendWrite(txid, variable, value) ==
  /\ tick >= 1
  /\ raised = NoError
  /\ variable \in workload.variables
  /\ value \in workload.values
  /\ txid \in DOMAIN open_tx
  /\ ~in_blocked_queue(txid)
  /\ With(write_tx([Cur EXCEPT !.out = <<>>], open_tx[txid], variable, value),
          LAMBDA r :
            Install(IF r.ret THEN r.w
                    ELSE block(r.w, txid, <<"w", variable, value>>)))

\* TransactionManager._fail.  Failing a site that is down clears what is
\* already clear and changes nothing; those steps are left out.
Fail(index) ==
  /\ tick >= 1
  /\ raised = NoError
  /\ is_up(sites[index])
  /\ Install([Cur EXCEPT
        !.sites[index] = Site_fail(@),
        !.failed_since =
           [t \in TxIds |->
              IF t \in DOMAIN open_tx /\ index \in DOMAIN open_tx[t].sites_accessed
              THEN @[t] \cup {index} ELSE @[t]],
        !.wrote_at =
           [t \in TxIds |-> [x \in DOMAIN @[t] |-> @[t][x] \ {index}]],
        !.out = <<SiteLine("down", index)>>])

\* TransactionManager._recover
Recover(index) ==
  /\ tick >= 1
  /\ raised = NoError
  /\ ~is_up(sites[index])
  /\ Install([Cur EXCEPT
        !.sites[index] = Site_recover(@, tick),
        !.gate[index] = site_variables(sites[index])
                          \ owned_variables(sites[index]),
        !.out = <<SiteLine("up", index)>>])

\* A command in error: raise ValueError(cmd_error(cmd, args, ...)).  Nothing
\* was changed before the raise; the exception leaves send_commands.
raise_cmd_error(w) == [w EXCEPT !.raised = ValueError, !.out = <<>>]

\* _fail_if_blocked that drops the stored operation before it raises.
fail_if_blocked_unblocks(w, txid) ==
  [w EXCEPT !.raised = RuntimeError, !.out = <<>>,
            !.failed_cmd = <<"blocked", txid>>,
            !.open_tx[txid].blocked = <<>>]

\* TransactionManager._fail_if_blocked, for a transaction of the blocked queue.
fail_if_blocked(w, txid) ==
  [w EXCEPT !.raised = RuntimeError, !.out = <<>>,
            !.failed_cmd = <<"blocked", txid>>]

\* _begin that takes the snapshots of a read-only transaction before it
\* looks for the txid in the open set.
begin_open_clones_first(w, txid, is_ro) ==
  [raise_cmd_error(w) EXCEPT
     !.failed_cmd = <<"begin", txid>>,
     !.sites = [index \in DOMAIN @ |->
                  IF is_ro /\ is_up(@[index])
                  THEN Site_multiversion_clone(@[index], w.tick)
                  ELSE @[index]]]

\* TransactionManager._begin for a txid that is in the open set (lines
\* 121-127): the command error is raised before anything is done.
begin_open(w, txid, is_ro) ==
  [raise_cmd_error(w) EXCEPT !.failed_cmd = <<"begin", txid>>]

\* TransactionManager._begin / _beginro of a txid that is open.
BeginOpen(txid, is_ro) ==
  /\ tick >= 1
  /\ raised = NoError
  /\ txid \in DOMAIN open_tx
  /\ Install(begin_open(Cur, txid, is_ro))

\* _append_end, _append_read or _append_write of a txid that is not open.
CommandNotOpen(cmd, txid) ==
  /\ tick >= 1
  /\ raised = NoError
  /\ txid \notin DOMAIN open_tx
  /\ Install([raise_cmd_error(Cur) EXCEPT !.failed_cmd = <<cmd, txid>>])

\* _append_read or _append_write of a variable that is not in the database.
UnknownVariable(txid) ==
  /\ tick >= 1
  /\ raised = NoError
  /\ txid \in DOMAIN open_tx
  /\ ~in_blocked_queue(txid)
  /\ Install([raise_cmd_error(Cur) EXCEPT !.failed_cmd = <<"variable", txid>>])

\* A command with the wrong number of arguments (check_args_len).
WrongArity ==
  /\ tick >= 1
  /\ raised = NoError
  /\ Install([raise_cmd_error(Cur) EXCEPT !.failed_cmd = <<"arity", None>>])

\* _append_end, _append_read or _append_write of a txid that is in the
\* blocked queue.
CommandBlocked(txid) ==
  /\ tick >= 1
  /\ raised = NoError
  /\ txid \in DOMAIN open_tx
  /\ in_blocked_queue(txid)
  /\ Install(fail_if_blocked(Cur, txid))

Next ==
  \/ SendCommands
  \/ \E txid \in TxIds : Begin(txid)
  \/ \E txid \in TxIds : BeginRO(txid)
  \/ \E txid \in TxIds : AppendEnd(txid)
  \/ \E txid \in TxIds, variable \in VarIds : AppendRead(txid, variable)
  \/ \E txid \in TxIds, variable \in VarIds, value \in WriteValues :
       AppendWrite(txid, variable, value)
  \/ \E index \in SiteIds : Fail(index)
  \/ \E index \in SiteIds : Recover(index)

Spec == Init /\ [][Next]_vars
SpecLong == InitLong /\ [][Next]_vars
SpecValues == InitValues /\ [][Next]_vars
SpecRetry == InitRetry /\ [][Next]_vars
SpecRelease == InitRelease /\ [][Next]_vars
SpecReplica == InitReplica /\ [][Next]_vars

\* The lists of at most n (variable, value) pairs.
RECURSIVE Batches(_)
Batches(n) ==
  IF n = 0 THEN {<<>>}
  ELSE Batches(n - 1)
         \cup {Append(b, <<x, v>>) :
                 b \in {c \in Batches(n - 1) : Len(c) = n - 1},
                 x \in VarIds, v \in WriteValues}

\* A client of the DatabaseManager of one site, calling batch_write with any
\* pairs, also of variables the site does not host.
InitDb ==
  Start([variables |-> VarIds, values |-> WriteValues, ticks |-> 0,
         txs |-> 0, cmds |-> DbCalls])

\* DatabaseManager.batch_write, called directly.
DbBatchWrite(index, values) ==
  /\ ncmds < workload.cmds
  /\ With(batch_write(sites[index].cache, values), LAMBDA r :
        /\ sites' = [sites EXCEPT ![index].cache = r.cache]
        /\ raised' = r.raised)
  /\ last_batch' = <<index, values>>
  /\ ncmds' = ncmds + 1
  /\ UNCHANGED <<tick, open_tx, blocked_queue, commit_abort_log, out,
                 tx_wrote, committed_val, ro_view, failed_since, tx_read,
                 wrote_at, gate, failed_cmd, blocked_by, db, workload>>

NextDb == \E index \in SiteIds, values \in Batches(BatchLen) :
            DbBatchWrite(index, values)
SpecDb == InitDb /\ [][NextDb]_vars

\* A DatabaseManager that writes and flushes step by step, whose process may
\* fail at any step and is then started again on the same data path.
InitFlush ==
  Start([variables |-> VarIds, values |-> WriteValues, ticks |-> 0,
         txs |-> 0, cmds |-> FlushSteps])

DbStep(d) ==
  /\ ncmds < workload.cmds
  /\ db' = d
  /\ ncmds' = ncmds + 1
  /\ UNCHANGED <<tick, sites, open_tx, blocked_queue, commit_abort_log, out,
                 tx_wrote, committed_val, ro_view, failed_since, tx_read,
                 wrote_at, gate, raised, failed_cmd, blocked_by, last_batch,
                 workload>>

\* DatabaseManager.write up to the call of _flush: the cache is updated.
DbWrite(variable, value) ==
  /\ db.pc = "idle"
  /\ has_variable(db.cache, variable)
  /\ DbStep([db EXCEPT !.cache = Put(@, variable, value),
                        !.before = db.dat.data,
                        !.flushing = Put(db.cache, variable, value),
                        !.recovered = FALSE,
                        !.pc = "rename"])

\* _flush: os.rename(self.data_file_path, self._data_file_tmp_path)
FlushRename ==
  /\ db.pc = "rename"
  /\ DbStep([db EXCEPT !.tmp = db.dat, !.dat = NoFile, !.pc = "open"])

\* _flush: open(self.data_file_path, 'w') creates the file, empty.
FlushOpen ==
  /\ db.pc = "open"
  /\ DbStep([db EXCEPT !.dat = CutFile, !.pc = "dump"])

\* _flush: self._dump(...) writes str(self._cache); the file is whole when
\* the call is over and the file object is closed.
FlushDump ==
  /\ db.pc = "dump"
  /\ DbStep([db EXCEPT !.dat = WholeFile(db.cache), !.pc = "remove"])

\* _flush: os.remove(self._data_file_tmp_path)
FlushRemove ==
  /\ db.pc = "remove"
  /\ DbStep([db EXCEPT !.tmp = NoFile, !.pc = "idle"])

\* The process fails: the cache is gone, the files stay.
DbCrash ==
  /\ db.pc \in {"rename", "open", "dump", "remove"}
  /\ DbStep([db EXCEPT !.pc = "down", !.cache = EmptyDict])

\* A new process: DatabaseManager.__init__ on the same data path, which
\* calls recover() and passes every exception but IOError on.
DbRestart ==
  /\ db.pc = "down"
  /\ With(db_recover(db.defaults, db.dat, db.tmp), LAMBDA r :
        DbStep([db EXCEPT !.cache = r.cache, !.dat = r.dat, !.tmp = r.tmp,
                          !.raised = r.raised, !.recovered = TRUE,
                          !.pc = IF r.raised = NoError THEN "idle"
                                 ELSE "down"]))

NextFlush ==
  \/ \E variable \in VarIds, value \in WriteValues : DbWrite(variable, value)
  \/ FlushRename
  \/ FlushOpen
  \/ FlushDump
  \/ FlushRemove
  \/ DbCrash
  \/ DbRestart
SpecFlush == InitFlush /\ [][NextFlush]_vars

\* The commands of a client that also sends commands in error.
NextErrors ==
  \/ Next
  \/ \E txid \in TxIds, is_ro \in BOOLEAN : BeginOpen(txid, is_ro)
  \/ \E cmd \in {"end", "R", "W"}, txid \in TxIds : CommandNotOpen(cmd, txid)
  \/ \E txid \in TxIds : UnknownVariable(txid)
  \/ WrongArity
  \/ \E txid \in TxIds : CommandBlocked(txid)
SpecErrors == InitErrors /\ [][NextErrors]_vars

(***************************************************************************)
(* Helpers of the properties                                               *)
(***************************************************************************)
Lines == {out[i] : i \in DOMAIN out}
MinOf(S) == CHOOSE a \in S : \A b \in S : a <= b
Ages(seen) == {p[1] : p \in seen}
LogOf(txid, status) ==
  \E i \in DOMAIN commit_abort_log :
    commit_abort_log[i][1] = txid /\ commit_abort_log[i][3] = status

\* The holders of the locks that conflict with the stored operation of the
\* blocked transaction t, over the sites of t that are up.
ConflictingHolders(t) ==
  LET tx == open_tx[t]
      x == tx.blocked[2]
      at(index) ==
        IF is_up(sites[index]) /\ x \in DOMAIN sites[index].lock_table
        THEN LET e == sites[index].lock_table[x]
             IN  IF tx.blocked[1] = "w" \/ e.state = RW_LOCK
                 THEN e.txids \ {t} ELSE {}
        ELSE {}
  IN  UNION {at(tx.sites[i]) : i \in DOMAIN tx.sites}

Blocked == {blocked_queue[i] : i \in DOMAIN blocked_queue}

\* t waits for u.
WaitsFor(t, u) ==
  /\ t \in Blocked
  /\ t \in DOMAIN open_tx
  /\ open_tx[t].blocked # <<>>
  /\ u \in ConflictingHolders(t)

\* Everything t waits for, directly or through others.
RECURSIVE WaitsForClosure(_, _)
WaitsForClosure(reached, n) ==
  IF n = 0 THEN reached
  ELSE WaitsForClosure(
         reached \cup {u \in TxIds : \E t \in reached : WaitsFor(t, u)}, n - 1)
WaitsForPlus(t) ==
  WaitsForClosure({u \in TxIds : WaitsFor(t, u)}, Cardinality(TxIds))

(***************************************************************************)
(* Properties                                                              *)
(***************************************************************************)

\* C1: deadlock avoidance.  In every reachable state the waits-for relation
\* among the transactions of the blocked queue has no cycle: no transaction
\* waits, directly or through others, for itself.
C1_NoWaitsForCycle == \A t \in TxIds : t \notin WaitsForPlus(t)

\* C2: a read/write transaction is logged COMMITTED by end only if no site it
\* accessed has failed between its first access there and the end.
C2_CommitOnlyIfSitesStayedUp ==
  \A l \in Lines :
    (l.ev = "committed" /\ ~l.ro) => failed_since[l.txid] = {}

\* C3: a successful read by a read/write transaction of a variable it has not
\* written returns the value installed by the most recently committed
\* transaction that wrote the variable (the initial value when there is none).
C3_ReadsSeeLastCommitted ==
  \A l \in Lines :
    (l.ev = "read" /\ ~l.ro /\ l.variable \notin DOMAIN tx_wrote[l.txid])
      => l.value = committed_val[l.variable]

\* C4: a successful read by a read-only transaction returns the value the
\* variable had, by the last committed write, when the transaction began.
C4_SnapshotReads ==
  \A l \in Lines :
    (l.ev = "read" /\ l.ro) => l.value = ro_view[l.txid][l.variable]

\* The open read-only transactions of tick t whose site set contains the site.
SnapshotUsers(index, t) ==
  {txid \in DOMAIN open_tx :
     /\ open_tx[txid].is_ro = t
     /\ \E i \in DOMAIN open_tx[txid].sites : open_tx[txid].sites[i] = index}

\* C5: for every site and tick, the reference count of the snapshot equals the
\* number of open read-only transactions of that tick whose site set contains
\* the site, and the snapshot is absent exactly when that number is zero.
C5_SnapshotRefcount ==
  \A index \in SiteIds, t \in 0..tick :
    LET n == Cardinality(SnapshotUsers(index, t))
        clones == sites[index].multiversion_clones
    IN  /\ (t \in DOMAIN clones) <=> (n > 0)
        /\ (t \in DOMAIN clones) => clones[t].count = n

\* C6 as stated: whenever a transaction is in the blocked queue because of a
\* lock conflict, the minimum start_time over the holders of the conflicting
\* locks is less than or equal to its own start_time.
C6_BlockersNotYounger ==
  \A t \in Blocked :
    (t \in DOMAIN open_tx /\ open_tx[t].blocked # <<>>
       /\ ConflictingHolders(t) # {})
      => MinOf({open_tx[u].start_time : u \in ConflictingHolders(t)})
           <= open_tx[t].start_time

\* C6, amended: whenever a read or write is blocked by a lock conflict, when
\* issued or when retried, the start_time of the blocked transaction is less
\* than or equal to the start_time of every holder of a conflicting lock
\* (T.start_time <= min start_time of B: the older one waits).
C6_BlockedNotYounger ==
  \A l \in Lines :
    l.ev = "blocked" => \A p \in l.seen : l.start_time <= p[1]

\* C6 witness: a transaction has just been blocked by a strictly younger holder.
C6_Witness ==
  \E l \in Lines :
    /\ l.ev = "blocked"
    /\ \E p \in l.seen : p[2] # l.txid /\ l.start_time < p[1]
    /\ l.txid \in Blocked

\* C7: a read or write that meets a lock conflict kills the transaction iff
\* its start_time is strictly greater than the smallest start_time among the
\* holders collected over the scanned sites; otherwise the transaction is put
\* on the blocked queue and stays open.
C7_WaitDieDecision ==
  \A l \in Lines :
    l.seen # {} =>
      /\ l.ev \in {"kill_wait_die", "blocked"}
      /\ l.ev = "kill_wait_die" <=> l.start_time > MinOf(Ages(l.seen))
      /\ l.ev = "kill_wait_die" =>
           /\ l.txid \notin DOMAIN open_tx
           /\ l.txid \notin Blocked
      /\ l.ev = "blocked" =>
           /\ l.txid \in DOMAIN open_tx
           /\ l.txid \in Blocked
           /\ open_tx[l.txid].alive

\* C8: a site that is down has an empty lock table, no pending writes and an
\* empty available_for_read set.
C8_DownSiteIsEmpty ==
  \A index \in SiteIds :
    ~is_up(sites[index]) =>
      /\ sites[index].lock_table = EmptyDict
      /\ sites[index].pending_writes = EmptyDict
      /\ sites[index].available_variables = {}

\* C8 witness: a write has just been routed while a site that hosts the
\* variable is down, by a transaction that had accessed that site before.
C8_Witness ==
  \E l \in Lines, index \in SiteIds :
    /\ l.ev \in {"write", "waiting"}
    /\ l.value # None
    /\ ~is_up(sites[index])
    /\ l.variable \in DOMAIN data_file_map[index]
    /\ l.txid \in DOMAIN open_tx
    /\ index \in DOMAIN open_tx[l.txid].sites_accessed

\* C9: at every site a variable locked in write mode has exactly one holder,
\* and two different transactions hold locks on the same variable only when
\* the mode is read.
C9_LockCompatibility ==
  \A index \in SiteIds :
    \A x \in DOMAIN sites[index].lock_table :
      LET e == sites[index].lock_table[x]
      IN  /\ e.state = RW_LOCK => Cardinality(e.txids) = 1
          /\ Cardinality(e.txids) > 1 => e.state = R_LOCK

\* C9 witness: a variable is shared by two readers, and one of them has just
\* asked for the write lock and met the conflict.
C9_Witness ==
  \E index \in SiteIds :
    \E x \in DOMAIN sites[index].lock_table :
      /\ Cardinality(sites[index].lock_table[x].txids) = 2
      /\ \E l \in Lines :
           /\ l.ev = "blocked" /\ l.variable = x /\ l.value # None
           /\ l.txid \in sites[index].lock_table[x].txids

\* C10: the holder set of every lock-table entry is non-empty iff its mode is
\* read or write.
C10_HoldersIffLocked ==
  \A index \in SiteIds :
    \A x \in DOMAIN sites[index].lock_table :
      LET e == sites[index].lock_table[x]
      IN  (e.txids # {}) <=> (e.state \in {R_LOCK, RW_LOCK})

\* C10 witness: one site holds an entry that was released (no holders) and an
\* entry that is locked.
C10_Witness ==
  \E index \in SiteIds :
    \E x, y \in DOMAIN sites[index].lock_table :
      /\ sites[index].lock_table[x].txids = {}
      /\ sites[index].lock_table[y].txids # {}

\* C11: when a read/write transaction that read x and wrote x (v being its
\* last write of x) is logged COMMITTED, every site that hosts x and has been
\* up since that write holds v as the committed value of x and has x in its
\* available set.
C11_CommitInstallsEverywhere ==
  \A l \in Lines :
    (l.ev = "committed" /\ ~l.ro) =>
      \A x \in DOMAIN tx_wrote[l.txid] \cap tx_read[l.txid] :
        \A index \in wrote_at[l.txid][x] :
          /\ is_up(sites[index])
          /\ db_read(sites[index].cache, x) = tx_wrote[l.txid][x]
          /\ x \in sites[index].available_variables

\* C11 witness: a read/write transaction that read and wrote the replicated
\* variable has just committed, and one of the sites that took the write had
\* recovered before and did not serve the variable for reading until now.
C11_Witness ==
  \E l \in Lines, index \in SiteIds :
    /\ l.ev = "committed" /\ ~l.ro
    /\ 2 \in DOMAIN tx_wrote[l.txid] \cap tx_read[l.txid]
    /\ index \in wrote_at[l.txid][2]
    /\ sites[index].up_since > 0
    /\ Cardinality(wrote_at[l.txid][2]) = 2

\* C12: the recovery gate.  From the recovery of a site until the first commit
\* at the site whose pending writes include x, no read of a read/write
\* transaction of a variable x that the site hosts but does not own is served
\* by the site, and the site holds no read lock on x, although it stores a
\* value for x; a pending write of x at the site does not open the gate.
C12_RecoveryGate ==
  \A index \in SiteIds :
    \A x \in gate[index] :
      /\ x \in DOMAIN sites[index].cache
      /\ \A l \in Lines :
            (l.ev = "read" /\ ~l.ro /\ l.variable = x) => index \notin l.site
      /\ x \in DOMAIN sites[index].lock_table
            => sites[index].lock_table[x].state # R_LOCK
      /\ is_up(sites[index]) =>
            \A txid \in TxIds :
              With(try_read(sites[index], txid, x, None), LAMBDA st :
                st.kind = "none" /\ st.site = sites[index])

\* C12 witness: site 1 has recovered and holds a pending write of x2 by a
\* read/write transaction, which has just read x2: the read passed site 1
\* and was served by site 2.
C12_Witness ==
  \E l \in Lines :
    /\ l.ev = "read" /\ ~l.ro /\ l.variable = 2 /\ l.site = {2}
    /\ is_up(sites[1])
    /\ 2 \in gate[1]
    /\ l.txid \in DOMAIN sites[1].pending_writes
    /\ 2 \in pending_vars(sites[1].pending_writes[l.txid])

\* C13: whenever a site is up, a read by a read/write transaction of a
\* variable the site owns is answered with success or with a lock conflict,
\* never with not-applicable, whatever the site has been through; so no such
\* read is left waiting for a site or killed for want of one.
C13_OwnedAlwaysReadable ==
  \A index \in SiteIds :
    \A x \in site_owned_vars(index) :
      is_up(sites[index]) =>
        /\ \A txid \in TxIds :
              try_read(sites[index], txid, x, None).kind \in {"ok", "conflict"}
        /\ \A l \in Lines :
              (~l.ro /\ l.variable = x /\ l.value = None)
                => l.ev \notin {"waiting", "kill_unavailable"}

\* C13 witness: site 1 failed and recovered, nothing was committed there
\* since, and a read/write transaction has just read x1 from it.
C13_Witness ==
  \E l \in Lines :
    /\ l.ev = "read" /\ ~l.ro /\ l.variable = 1 /\ l.site = {1}
    /\ 1 \in site_owned_vars(1)
    /\ sites[1].up_since > 0
    /\ 1 \notin sites[1].available_variables

\* C14: read your own writes.  A successful read by a read/write transaction
\* of a variable it has successfully written returns the value of its latest
\* write of the variable, the value its commit would install.
C14_ReadYourOwnWrites ==
  \A l \in Lines :
    (l.ev = "read" /\ ~l.ro /\ l.variable \in DOMAIN tx_wrote[l.txid])
      => l.value = tx_wrote[l.txid][l.variable]

\* C15: the commit/abort log contains each terminated txid exactly once: no
\* txid appears in two entries, also when the txid was begun again after its
\* earlier transaction ended, and every transaction that has just left the
\* open set has an entry.
C15_LogOncePerTxid ==
  /\ \A i, j \in DOMAIN commit_abort_log :
        commit_abort_log[i][1] = commit_abort_log[j][1] => i = j
  /\ \A l \in Lines :
        l.ev \in {"committed", "aborted"} =>
          /\ l.txid \notin DOMAIN open_tx
          /\ \E i \in DOMAIN commit_abort_log :
                commit_abort_log[i][1] = l.txid

\* C16: for every open transaction T and every site s that T has accessed,
\* T.start_time <= sites_accessed[s] <= the current tick.
C16_AccessTimeBounds ==
  \A txid \in DOMAIN open_tx :
    \A index \in DOMAIN open_tx[txid].sites_accessed :
      /\ open_tx[txid].start_time <= open_tx[txid].sites_accessed[index]
      /\ open_tx[txid].sites_accessed[index] <= tick

\* C16 witness: an open transaction accessed one site in the tick it began
\* and another site in a later tick, the current one.
C16_Witness ==
  \E txid \in DOMAIN open_tx :
    \E a, b \in DOMAIN open_tx[txid].sites_accessed :
      /\ open_tx[txid].sites_accessed[a] = open_tx[txid].start_time
      /\ open_tx[txid].sites_accessed[a] < open_tx[txid].sites_accessed[b]
      /\ open_tx[txid].sites_accessed[b] = tick

\* C17: when a command of a batch fails with a user/command error, the
\* commands that follow it in the batch are still executed: the error does
\* not end the running call of send_commands.
C17_BatchSurvivesCommandError == raised # ValueError

\* C18: a read, write or end addressed to a transaction of the blocked queue
\* raises the protocol error and is not executed: the stored operation of the
\* transaction, the lock tables, the pending writes, the open set and the
\* commit/abort log are as they were.
C18_BlockedCommandChangesNothing ==
  [][(raised = NoError /\ raised' = RuntimeError) =>
       /\ \E txid \in Blocked : open_tx[txid].blocked # <<>>
       /\ UNCHANGED <<sites, open_tx, blocked_queue, commit_abort_log, tick>>]_vars

\* C18 witness: the protocol error was raised while a blocked transaction
\* holds a lock and a pending write at a site.
C18_Witness ==
  /\ raised = RuntimeError
  /\ \E txid \in Blocked, index \in SiteIds :
        /\ open_tx[txid].blocked # <<>>
        /\ txid \in DOMAIN sites[index].pending_writes
        /\ \E x \in DOMAIN sites[index].lock_table :
              txid \in sites[index].lock_table[x].txids

\* The txids of a sequence of logged lines, each run of lines of the same
\* transaction counted once.
RECURSIVE TxidRuns(_)
TxidRuns(lines) ==
  IF lines = <<>> THEN <<>>
  ELSE IF Len(lines) > 1 /\ lines[1].txid = lines[2].txid
  THEN TxidRuns(Tail(lines))
  ELSE <<lines[1].txid>> \o TxidRuns(Tail(lines))

\* C19: a call of send_commands advances the tick by exactly one and retries
\* every stored operation of the blocked queue once, in the order in which
\* the transactions entered the queue, before any command of the batch; the
\* commands of the batch leave the tick alone and retry nothing.
C19_TickRetriesThenCommands ==
  [][/\ tick' \in {tick, tick + 1}
     /\ tick' = tick + 1 =>
          /\ TxidRuns(out') = blocked_queue
          /\ \A i \in DOMAIN blocked_queue :
                open_tx[blocked_queue[i]].blocked # <<>>
     /\ tick' = tick =>
          \A i \in DOMAIN out' : out'[i].txid \notin Blocked]_vars

\* C19 witness: a call of send_commands has just retried the two blocked
\* transactions in the order of the queue, which T2 had entered before T1;
\* both are blocked again.
C19_Witness ==
  /\ Len(out) = 2
  /\ out[1].txid > out[2].txid
  /\ out[1].ev = "blocked" /\ out[2].ev = "blocked"
  /\ blocked_queue = <<out[1].txid, out[2].txid>>
  /\ \A i \in DOMAIN blocked_queue :
        open_tx[blocked_queue[i]].start_time < tick

\* The value of the last pair of the list for the variable, None when the
\* list has no pair for it.
RECURSIVE last_listed(_, _)
last_listed(values, variable) ==
  IF values = <<>> THEN None
  ELSE IF values[Len(values)][1] = variable THEN values[Len(values)][2]
  ELSE last_listed(SubSeq(values, 1, Len(values) - 1), variable)

\* C20: batch_write is all-or-nothing on validation.  If a pair names a
\* variable the database does not manage, the call raises an error and every
\* managed variable keeps its value; otherwise every listed variable takes
\* its listed value, the last one when it is listed twice, and no other
\* variable changes.
C20_BatchWriteAllOrNothing ==
  \A index \in SiteIds :
    \A values \in Batches(BatchLen) :
      LET cache == sites[index].cache
          r == batch_write(cache, values)
      IN  /\ DOMAIN r.cache = DOMAIN cache
          /\ IF \E i \in DOMAIN values : values[i][1] \notin DOMAIN cache
             THEN r.raised = ValueError /\ r.cache = cache
             ELSE /\ r.raised = NoError
                  /\ \A x \in DOMAIN cache :
                        r.cache[x] = IF last_listed(values, x) # None
                                     THEN last_listed(values, x)
                                     ELSE cache[x]

\* C20 witness: a call has just been rejected for its second pair, the first
\* pair naming a managed variable with a value that differs from the stored
\* one, which an earlier call had written.
C20_Witness ==
  /\ raised = ValueError
  /\ last_batch # <<>>
  /\ LET cache == sites[last_batch[1]].cache
         values == last_batch[2]
     IN  /\ Len(values) = 2
         /\ values[1][1] \in DOMAIN cache
         /\ values[2][1] \notin DOMAIN cache
         /\ cache[values[1][1]] \in WriteValues
         /\ cache[values[1][1]] # values[1][2]

\* C21: try_lock(variable, txid, mode) returns true exactly when the variable
\* has no holders, or txid is a holder and asks for read, or txid is the sole
\* holder and asks for write (the mode becomes write), or the mode is read,
\* the request is read and txid is new (txid is added).  In every other case
\* it returns false and the entry is as it was.
C21_TryLockCases ==
  \A index \in SiteIds :
    \A x \in site_variables(sites[index]), txid \in TxIds,
       mode \in {R_LOCK, RW_LOCK} :
      LET lt == sites[index].lock_table
          e == IF x \in DOMAIN lt THEN lt[x]
               ELSE [txids |-> {}, state |-> UNLOCKED]
          r == try_lock(lt, x, txid, mode)
          free == e.txids = {}
          again == txid \in e.txids /\ mode = R_LOCK
          promote == e.txids = {txid} /\ mode = RW_LOCK
          share == e.txids # {} /\ txid \notin e.txids
                     /\ e.state = R_LOCK /\ mode = R_LOCK
      IN  /\ r.ok = (free \/ again \/ promote \/ share)
          /\ free => r.lock_table[x] = [txids |-> {txid}, state |-> mode]
          /\ again => r.lock_table[x] = e
          /\ promote => r.lock_table[x] = [txids |-> {txid}, state |-> RW_LOCK]
          /\ share => r.lock_table[x] =
                        [txids |-> e.txids \cup {txid}, state |-> R_LOCK]
          /\ ~r.ok => r.lock_table[x] = e
          /\ \A y \in DOMAIN lt \ {x} : r.lock_table[y] = lt[y]

\* C21 witness: a transaction that had read x1 and x2 at site 1 has just
\* written x2 at both sites: its read locks at site 1 were promoted, being
\* the sole holder, and the lock at site 2 was free.
C21_Witness ==
  \E l \in Lines :
    /\ l.ev = "write" /\ l.variable = 2 /\ l.site = {1, 2}
    /\ 2 \in tx_read[l.txid]
    /\ 2 \in DOMAIN sites[1].lock_table
    /\ sites[1].lock_table[2] = [txids |-> {l.txid}, state |-> RW_LOCK]
    /\ 1 \in DOMAIN sites[1].lock_table
    /\ sites[1].lock_table[1] = [txids |-> {l.txid}, state |-> RW_LOCK]
    /\ 1 \in tx_read[l.txid]

\* C22: crash-safe flush.  When the process fails at any point of _flush, a
\* following recover() succeeds and loads a map equal to the map persisted
\* before the flush or to the map being flushed.
C22_CrashSafeFlush ==
  db.recovered =>
    /\ db.raised = NoError
    /\ db.cache \in {db.before, db.flushing}

\* C23: begin(T) or beginRO(T) for a txid that is open is rejected with a
\* command error and changes nothing: the open transaction keeps its
\* start_time, site set, sites_accessed and blocked operation, and no
\* snapshot reference count of any site changes.
C23_BeginOpenRejected ==
  [][(failed_cmd' # <<>> /\ failed_cmd'[1] = "begin") =>
       /\ failed_cmd'[2] \in DOMAIN open_tx
       /\ raised' = ValueError
       /\ open_tx' = open_tx
       /\ \A index \in SiteIds :
             sites'[index].multiversion_clones
               = sites[index].multiversion_clones
       /\ UNCHANGED <<sites, blocked_queue, commit_abort_log, tick>>]_vars

\* C23 witness: the begin of the txid of an open read-only transaction, which
\* has read from its snapshot at a site, has just been rejected.
C23_Witness ==
  /\ raised = ValueError
  /\ failed_cmd # <<>>
  /\ failed_cmd[1] = "begin"
  /\ failed_cmd[2] \in DOMAIN open_tx
  /\ LET tx == open_tx[failed_cmd[2]]
     IN  /\ tx.is_ro # None
         /\ tx.sites_accessed # EmptyDict
         /\ \E index \in SiteIds :
               /\ tx.is_ro \in DOMAIN sites[index].multiversion_clones
               /\ sites[index].multiversion_clones[tx.is_ro].count = 1

\* C24: end(T) for a transaction T that wait-die has killed is accepted
\* without error, and T is aborted at every site it could have touched and
\* logged ABORTED.  Stated for the end(T) that follows the kill directly: the
\* command is not the one that raises, and the log lists T as ABORTED.
C24_EndOfKilledAccepted ==
  [][\A txid \in TxIds :
       (\E l \in Lines : l.ev = "kill_wait_die" /\ l.txid = txid)
         => /\ failed_cmd' # <<"end", txid>>
            /\ LogOf(txid, ABORTED)]_vars

\* The locks and pending writes of txid at a site are gone.
Released(site, txid) ==
  /\ txid \notin DOMAIN site.pending_writes
  /\ \A x \in DOMAIN site.lock_table : txid \notin site.lock_table[x].txids

WriteLines(evs) ==
  {l \in Lines : l.ev \in evs /\ ~l.ro /\ l.value # None}

\* C26: available-copies write.  When W(T,x,v) of a read/write transaction
\* completes (neither blocked nor killed), at least one site accepted it, and
\* every site that is up and hosts x holds T's write lock on x and a pending
\* write (x,v) of T; down sites are skipped without error.  When no site that
\* hosts x is up the write is blocked and T stays open.
C26_AvailableCopiesWrite ==
  /\ \A l \in WriteLines({"write"}) :
       /\ l.site # {}
       /\ l.txid \in DOMAIN open_tx
       /\ \A index \in SiteIds :
             IF sites[index].up_since # None /\ Hosts(index, l.variable)
             THEN /\ index \in l.site
                  /\ l.variable \in DOMAIN sites[index].lock_table
                  /\ sites[index].lock_table[l.variable]
                       = [txids |-> {l.txid}, state |-> RW_LOCK]
                  /\ l.txid \in DOMAIN sites[index].pending_writes
                  /\ \E i \in DOMAIN sites[index].pending_writes[l.txid] :
                        sites[index].pending_writes[l.txid][i]
                          = <<l.variable, l.value>>
             ELSE index \notin l.site
  /\ \A l \in WriteLines({"write", "blocked", "kill_wait_die"}) :
       \E index \in SiteIds :
         sites[index].up_since # None /\ Hosts(index, l.variable)
  /\ \A l \in WriteLines({"waiting"}) :
       /\ \A index \in SiteIds :
             Hosts(index, l.variable) => sites[index].up_since = None
       /\ l.txid \in DOMAIN open_tx
       /\ open_tx[l.txid].alive
       /\ open_tx[l.txid].blocked = <<"w", l.variable, l.value>>
       /\ \E i \in DOMAIN blocked_queue : blocked_queue[i] = l.txid

\* C26 witness: a write of the replicated x2 has just completed at site 1
\* while site 2, which hosts x2 too, is down.
C26_Witness ==
  \E l \in WriteLines({"write"}) :
    /\ l.variable = 2
    /\ l.site = {1}
    /\ sites[2].up_since = None
    /\ sites[1].lock_table[2] = [txids |-> {l.txid}, state |-> RW_LOCK]

\* C27: the outcome of R(T,x) of a read/write transaction, T's sites scanned
\* in order.  If some site grants the read, it succeeds at the first such
\* site and T takes a lock at that site only.  Otherwise, if a site reported
\* a lock conflict, wait-die decides: T is killed when it is younger than the
\* oldest holder and blocked when not.  Otherwise, if a site is down, T is
\* blocked.  Otherwise T is killed and aborted.
C27_ReadOutcome ==
  [][(/\ tick' = tick
      /\ out' # <<>>
      /\ out'[1].variable # None
      /\ out'[1].ev = "read" \/ out'[1].value = None
      /\ ~out'[1].ro) =>
       LET txid == out'[1].txid
           x == out'[1].variable
           tx == open_tx[txid]
           answer(i) == try_read(sites[tx.sites[i]], txid, x, None)
           grants == {i \in DOMAIN tx.sites : answer(i).kind = "ok"}
           conflicts == {i \in DOMAIN tx.sites : answer(i).kind = "conflict"}
           down == {i \in DOMAIN tx.sites : sites[tx.sites[i]].up_since = None}
           holders == UNION {answer(i).waits_for : i \in conflicts}
           killed == /\ txid \notin DOMAIN open_tx'
                     /\ Len(out') = 2
                     /\ out'[2].ev = "aborted"
                     /\ out'[2].txid = txid
                     /\ commit_abort_log' =
                          Append(commit_abort_log,
                                 <<txid, tx.start_time, ABORTED>>)
           waits == /\ Len(out') = 1
                    /\ sites' = sites
                    /\ commit_abort_log' = commit_abort_log
                    /\ txid \in DOMAIN open_tx'
                    /\ open_tx'[txid].blocked = <<"r", x>>
                    /\ \E i \in DOMAIN blocked_queue' :
                          blocked_queue'[i] = txid
       IN  IF grants # {}
           THEN LET first == tx.sites[MinOf(grants)]
                IN  /\ out' = <<[out'[1] EXCEPT !.ev = "read"]>>
                    /\ out'[1].site = {first}
                    /\ out'[1].value = answer(MinOf(grants)).value
                    /\ txid \in sites'[first].lock_table[x].txids
                    /\ \A index \in SiteIds \ {first} :
                          sites'[index] = sites[index]
                    /\ txid \in DOMAIN open_tx'
                    /\ open_tx'[txid].blocked = <<>>
                    /\ commit_abort_log' = commit_abort_log
           ELSE IF conflicts # {}
           THEN IF tx.start_time
                     > MinOf({open_tx[h].start_time : h \in holders})
                THEN out'[1].ev = "kill_wait_die" /\ killed
                ELSE out'[1].ev = "blocked" /\ waits
           ELSE IF down # {}
           THEN out'[1].ev = "waiting" /\ waits
           ELSE out'[1].ev = "kill_unavailable" /\ killed]_vars

\* C27 witness: a read of a read/write transaction has just been put on the
\* blocked queue because a site is down, no site granting it and none
\* reporting a conflict.
C27_Witness ==
  /\ Len(out) = 1
  /\ out[1].ev = "waiting"
  /\ out[1].value = None
  /\ ~out[1].ro
  /\ \E index \in SiteIds : sites[index].up_since = None
  /\ \E index \in SiteIds : sites[index].up_since # None

\* The number of entries of a log for a txid.
RECURSIVE Entries(_, _)
Entries(log, txid) ==
  IF log = <<>> THEN 0
  ELSE (IF Head(log)[1] = txid THEN 1 ELSE 0) + Entries(Tail(log), txid)

\* C28: a kill is an immediate termination.  In the step in which a read or
\* write kills T (wait-die, or the variable is available nowhere), T leaves
\* the open set, every lock and pending write of T at every up site is
\* released, no committed value changes, and one ABORTED entry for T is
\* appended to the log.  The same holds when the kill happens in the retry of
\* a blocked operation, and T is then no longer in the blocked queue.
C28_KillTerminates ==
  [][\A i \in DOMAIN out' :
       out'[i].ev \in {"kill_wait_die", "kill_unavailable"} =>
         LET txid == out'[i].txid
         IN  /\ txid \in DOMAIN open_tx
             /\ txid \notin DOMAIN open_tx'
             /\ \A index \in SiteIds :
                   /\ sites'[index].up_since # None
                        => Released(sites'[index], txid)
                   /\ sites'[index].cache = sites[index].cache
                   /\ sites'[index].available_variables
                        = sites[index].available_variables
             /\ Entries(commit_abort_log', txid)
                  = Entries(commit_abort_log, txid) + 1
             /\ \E k \in DOMAIN commit_abort_log' :
                   /\ k > Len(commit_abort_log)
                   /\ commit_abort_log'[k]
                        = <<txid, open_tx[txid].start_time, ABORTED>>
             /\ i < Len(out')
             /\ out'[i + 1].ev = "aborted"
             /\ out'[i + 1].txid = txid
             /\ \A k \in DOMAIN blocked_queue' : blocked_queue'[k] # txid]_vars

\* C28 witness: the retry of a blocked read at a new tick has just killed the
\* transaction, which the last entry of the log lists as ABORTED.
C28_Witness ==
  /\ tick = 2
  /\ Len(out) = 2
  /\ out[1].ev \in {"kill_wait_die", "kill_unavailable"}
  /\ out[1].retry
  /\ out[1].start_time = 1
  /\ out[2].ev = "aborted"
  /\ commit_abort_log # <<>>
  /\ commit_abort_log[Len(commit_abort_log)] = <<out[1].txid, 1, ABORTED>>
  /\ out[1].txid \notin DOMAIN open_tx
  /\ blocked_queue = <<>>

\* C29: abort has no effect on data.  In a step that aborts a transaction (by
\* end or by a kill) no site's committed value and no site's set of variables
\* available for reading changes.  A committed value changes only in a step
\* that logs a transaction COMMITTED, to a value that transaction wrote at
\* the site; so every committed value is the initial value or one written by
\* a transaction logged COMMITTED.
C29_AbortKeepsData ==
  [][/\ (\E i \in DOMAIN out' : out'[i].ev = "aborted") =>
          \A index \in SiteIds :
            /\ sites'[index].cache = sites[index].cache
            /\ sites'[index].available_variables
                 = sites[index].available_variables
     /\ \A index \in SiteIds : \A x \in DOMAIN sites[index].cache :
          sites'[index].cache[x] # sites[index].cache[x] =>
            /\ Len(commit_abort_log') = Len(commit_abort_log) + 1
            /\ LET entry == commit_abort_log'[Len(commit_abort_log')]
               IN  /\ entry[3] = COMMITTED
                   /\ entry[1] \in DOMAIN sites[index].pending_writes
                   /\ \E k \in DOMAIN sites[index].pending_writes[entry[1]] :
                         sites[index].pending_writes[entry[1]][k]
                           = <<x, sites'[index].cache[x]>>]_vars

\* C29 witness: end has just aborted a transaction that wrote x2; site 1 is
\* up, holds nothing of it any more, and its committed x2 is the initial 20.
C29_Witness ==
  /\ Len(out) = 1
  /\ out[1].ev = "aborted"
  /\ 2 \in DOMAIN tx_wrote[out[1].txid]
  /\ 2 \in DOMAIN wrote_at[out[1].txid]
  /\ 1 \in wrote_at[out[1].txid][2]
  /\ sites[1].up_since # None
  /\ Released(sites[1], out[1].txid)
  /\ sites[1].cache[2] = 20

\* The mode in which txid holds the lock of x at a site, UNLOCKED when it
\* does not hold it.
HeldMode(site, x, txid) ==
  IF x \in DOMAIN site.lock_table /\ txid \in site.lock_table[x].txids
  THEN site.lock_table[x].state
  ELSE UNLOCKED

\* C30: strict two-phase locking.  A lock that T holds at a site is removed
\* or downgraded only in a step that ends T (commit or abort, T leaves the
\* open set and gets a log entry) or in which the site fails: no read, write,
\* retry, begin or end of another transaction takes it away, and T releases
\* nothing while it is open.
C30_StrictTwoPhaseLocking ==
  [][\A index \in SiteIds : \A x \in VarIds : \A txid \in TxIds :
       HeldMode(sites'[index], x, txid) < HeldMode(sites[index], x, txid) =>
         \/ /\ sites[index].up_since # None
            /\ sites'[index].up_since = None
         \/ /\ txid \in DOMAIN open_tx
            /\ txid \notin DOMAIN open_tx'
            /\ Entries(commit_abort_log', txid)
                 = Entries(commit_abort_log, txid) + 1]_vars

\* C30 witness: wait-die has just killed a transaction whose write conflicted
\* with the write lock of another one, which still holds that lock and is
\* open.
C30_Witness ==
  /\ Len(out) = 2
  /\ out[1].ev = "kill_wait_die"
  /\ out[1].value # None
  /\ \E txid \in DOMAIN open_tx : \E index \in SiteIds :
       /\ txid # out[1].txid
       /\ HeldMode(sites[index], out[1].variable, txid) = RW_LOCK
       /\ out[1].by = txid

\* C31: a read of a read-only transaction T never blocks and does not depend
\* on the present state of the sites.  beginRO gives T the sites that are up
\* at that moment; R(T,x) completes in the step it is issued, with the value
\* of the snapshot of the first of those sites that hosts x, whether or not
\* the site is still up; when none of them hosts x, T is killed.  The read
\* never puts T on the blocked queue.
C31_ReadOnlyReadNeverBlocks ==
  [][/\ (out' # <<>> /\ out'[1].ev = "started_ro") =>
          {open_tx'[out'[1].txid].sites[i] :
               i \in DOMAIN open_tx'[out'[1].txid].sites}
            = {index \in SiteIds : sites[index].up_since # None}
     /\ (/\ out' # <<>>
         /\ out'[1].ro
         /\ out'[1].variable # None
         /\ out'[1].ev = "read" \/ out'[1].value = None) =>
          LET txid == out'[1].txid
              x == out'[1].variable
              tx == open_tx[txid]
              hosting == {i \in DOMAIN tx.sites : Hosts(tx.sites[i], x)}
          IN  /\ tick' = tick
              /\ ~out'[1].retry
              /\ blocked_queue' = blocked_queue
              /\ IF hosting # {}
                 THEN LET first == tx.sites[MinOf(hosting)]
                      IN  /\ Len(out') = 1
                          /\ out'[1].ev = "read"
                          /\ out'[1].site = {first}
                          /\ out'[1].value =
                               sites[first].multiversion_clones[tx.start_time]
                                 .clone[x]
                          /\ txid \in DOMAIN open_tx'
                          /\ open_tx'[txid].blocked = <<>>
                          /\ open_tx'[txid].alive
                 ELSE /\ Len(out') = 2
                      /\ out'[1].ev = "kill_unavailable"
                      /\ out'[2].ev = "aborted"
                      /\ txid \notin DOMAIN open_tx']_vars

\* C31 witness: a read-only transaction has just read x1 from the snapshot
\* of site 1, the only site that hosts x1, which has failed since beginRO.
C31_Witness ==
  /\ Len(out) = 1
  /\ out[1].ev = "read"
  /\ out[1].ro
  /\ out[1].variable = 1
  /\ out[1].site = {1}
  /\ sites[1].up_since = None

\* C32: bounded response after release.  T1's operation is on the blocked
\* queue only because of locks held by T2, and the end of T2 is the last
\* command of tick t, so that nothing takes a conflicting lock afterwards in
\* tick t.  Then the retry at the start of tick t+1 succeeds: T1 is open,
\* has no stored operation, is not in the blocked queue, and the retry logged
\* its read or write.
C32_RetrySucceedsAfterRelease ==
  [][(/\ tick' = tick + 1
      /\ Len(out) = 1
      /\ out[1].ev \in {"committed", "aborted"}) =>
       \A txid \in Blocked :
         blocked_by[txid] = {out[1].txid} =>
           /\ txid \in DOMAIN open_tx'
           /\ open_tx'[txid].blocked = <<>>
           /\ \A k \in DOMAIN blocked_queue' : blocked_queue'[k] # txid
           /\ \E i \in DOMAIN out' :
                 /\ out'[i].txid = txid
                 /\ out'[i].retry
                 /\ out'[i].ev \in {"read", "write"}]_vars

\* C33: first touch.  Once sites_accessed[s] of a transaction is set it never
\* changes while the transaction is open: later reads and writes that succeed
\* at s, the repeated successes of the retry of a partly successful blocked
\* write included, leave it at the tick of the first success.  An entry that
\* a step adds holds the tick of that step.
C33_FirstTouch ==
  [][\A txid \in DOMAIN open_tx \cap DOMAIN open_tx' :
       /\ \A index \in DOMAIN open_tx[txid].sites_accessed :
            /\ index \in DOMAIN open_tx'[txid].sites_accessed
            /\ open_tx'[txid].sites_accessed[index]
                 = open_tx[txid].sites_accessed[index]
       /\ \A index \in DOMAIN open_tx'[txid].sites_accessed :
            index \notin DOMAIN open_tx[txid].sites_accessed =>
              open_tx'[txid].sites_accessed[index] = tick']_vars

\* C33 witness: the retry at tick 2 of a write that is blocked at site 2 has
\* just succeeded at site 1 for the second time; the transaction has two
\* pending writes there and its access to site 1 is still dated tick 1.
C33_Witness ==
  /\ tick = 2
  /\ \E i \in DOMAIN out :
       /\ out[i].retry
       /\ out[i].ev = "blocked"
       /\ out[i].value # None
       /\ LET txid == out[i].txid
          IN  /\ txid \in DOMAIN open_tx
              /\ 1 \in DOMAIN open_tx[txid].sites_accessed
              /\ open_tx[txid].sites_accessed[1] = 1
              /\ txid \in DOMAIN sites[1].pending_writes
              /\ Len(sites[1].pending_writes[txid]) = 2

\* C34: fail(S) leaves the committed values and the snapshots of S (contents
\* and reference counts) as they are and changes no other site and no
\* transaction record; it marks S down and empties its lock table, pending
\* writes and available set.  recover(S) at tick t changes only up_since,
\* to t: the store stays, and the lock table, the pending writes and the
\* available set stay empty.
C34_FailRecoverFrame ==
  [][(Len(out') = 1 /\ out'[1].ev \in {"down", "up"}) =>
       \E index \in SiteIds :
         /\ out'[1].site = {index}
         /\ \A other \in SiteIds \ {index} : sites'[other] = sites[other]
         /\ open_tx' = open_tx
         /\ blocked_queue' = blocked_queue
         /\ commit_abort_log' = commit_abort_log
         /\ tick' = tick
         /\ sites'[index].cache = sites[index].cache
         /\ sites'[index].multiversion_clones
              = sites[index].multiversion_clones
         /\ sites'[index].lock_table = EmptyDict
         /\ sites'[index].pending_writes = EmptyDict
         /\ sites'[index].available_variables = {}
         /\ IF out'[1].ev = "down"
            THEN /\ sites[index].up_since # None
                 /\ sites'[index].up_since = None
            ELSE /\ sites[index].up_since = None
                 /\ sites'[index].up_since = tick
                 /\ sites'[index] = [sites[index] EXCEPT !.up_since = tick]]_vars

\* C34 witness: site 1 has just recovered at tick 1; it still holds the
\* snapshot taken for a reader and the value 5 committed for x1 before it
\* failed, and nothing is available for reading.
C34_Witness ==
  /\ Len(out) = 1
  /\ out[1].ev = "up"
  /\ out[1].site = {1}
  /\ sites[1].up_since = 1
  /\ 1 \in DOMAIN sites[1].multiversion_clones
  /\ sites[1].multiversion_clones[1].count = 1
  /\ sites[1].cache[1] = 5
  /\ sites[1].available_variables = {}

\* C35: a read-only transaction never holds a lock and never has pending
\* writes at any site, so a W sent to it leaves locks, pending writes and
\* stores alone and its end changes no committed value.
C35_ReadOnlyNeverWrites ==
  \A txid \in DOMAIN open_tx :
    is_read_only(open_tx[txid]) =>
      \A index \in SiteIds :
        /\ txid \notin DOMAIN sites[index].pending_writes
        /\ \A x \in DOMAIN sites[index].lock_table :
              txid \notin sites[index].lock_table[x].txids

\* C36: replica agreement.  In every reachable state, for every variable
\* hosted at several sites, the sites that are up and have it in their
\* available set hold the same committed value for it.
C36_ReplicaAgreement ==
  \A x \in VarIds : \A a \in SiteIds : \A b \in SiteIds :
    (/\ Hosts(a, x) /\ Hosts(b, x)
     /\ sites[a].up_since # None /\ sites[b].up_since # None
     /\ x \in sites[a].available_variables
     /\ x \in sites[b].available_variables)
      => sites[a].cache[x] = sites[b].cache[x]

\* C37: after every command, every txid that holds a lock or has pending
\* writes at a site is the txid of an open transaction, so the lookup of a
\* blocker's start_time by wait-die finds it; a transaction that has
\* terminated leaves no lock and no pending write at any site.
C37_HoldersAreOpen ==
  \A index \in SiteIds :
    /\ DOMAIN sites[index].pending_writes \subseteq DOMAIN open_tx
    /\ \A x \in DOMAIN sites[index].lock_table :
          sites[index].lock_table[x].txids \subseteq DOMAIN open_tx

\* C37 witness: a transaction that wrote has just been committed and is
\* gone from every site, while another, open one holds a lock.
C37_Witness ==
  \E l \in Lines :
    /\ l.ev = "committed"
    /\ tx_wrote[l.txid] # EmptyDict
    /\ l.txid \notin DOMAIN open_tx
    /\ \A index \in SiteIds : Released(sites[index], l.txid)
    /\ \E txid \in DOMAIN open_tx : \E index \in SiteIds : \E x \in VarIds :
          HeldMode(sites[index], x, txid) # UNLOCKED

\* C38: after every call of send_commands, an open transaction is in the
\* blocked queue iff it has a stored blocked operation; every transaction in
\* the queue is open, is in it exactly once and holds exactly one stored
\* operation, an R with its variable or a W with its variable and value.
C38_BlockedQueueMatchesStoredOps ==
  /\ \A txid \in DOMAIN open_tx :
       in_blocked_queue(txid) <=> open_tx[txid].blocked # <<>>
  /\ \A i \in DOMAIN blocked_queue :
       /\ blocked_queue[i] \in DOMAIN open_tx
       /\ \A k \in DOMAIN blocked_queue :
             blocked_queue[k] = blocked_queue[i] => k = i
       /\ LET op == open_tx[blocked_queue[i]].blocked
          IN  \/ Len(op) = 2 /\ op[1] = "r" /\ op[2] \in VarIds
              \/ Len(op) = 3 /\ op[1] = "w" /\ op[2] \in VarIds
                             /\ op[3] \in WriteValues

\* C38 witness: a call of send_commands has just retried a blocked write
\* and granted it, so that its transaction left the queue, while the stored
\* operation of the other transaction was blocked again and stays queued.
C38_Witness ==
  /\ Len(blocked_queue) = 1
  /\ \E i \in DOMAIN out : \E k \in DOMAIN out :
       /\ out[i].retry /\ out[i].ev = "blocked"
       /\ out[i].txid = blocked_queue[1]
       /\ out[k].retry /\ out[k].ev \in {"read", "write"}
       /\ out[k].txid \in DOMAIN open_tx
       /\ open_tx[out[k].txid].blocked = <<>>

\* C39: no dirty reads.  A read of a read/write transaction returns the
\* committed value of the serving site or a value the reader itself has
\* pending there, never the pending value of another transaction.  A read of
\* a read-only transaction returns the content of its snapshot, and a
\* snapshot is a copy of the committed store at the moment it is taken and
\* never changes afterwards: pending writes are not in it.
C39_NoDirtyReads ==
  [][/\ \A index \in SiteIds :
          \A k \in DOMAIN sites'[index].multiversion_clones :
            sites'[index].multiversion_clones[k].clone =
              IF k \in DOMAIN sites[index].multiversion_clones
              THEN sites[index].multiversion_clones[k].clone
              ELSE sites[index].cache
     /\ \A i \in DOMAIN out' :
          out'[i].ev = "read" =>
            \E index \in out'[i].site :
              LET site == sites'[index]
                  x == out'[i].variable
                  txid == out'[i].txid
              IN  IF out'[i].ro
                  THEN out'[i].value =
                         site.multiversion_clones[out'[i].start_time].clone[x]
                  ELSE \/ out'[i].value = site.cache[x]
                       \/ /\ txid \in DOMAIN site.pending_writes
                          /\ \E k \in DOMAIN site.pending_writes[txid] :
                                site.pending_writes[txid][k]
                                  = <<x, out'[i].value>>]_vars

\* C39 witness: a read-only transaction has just read the committed 10 of x1
\* from its snapshot of site 1, where another transaction had the write
\* (x1, 5) pending when the snapshot was taken and still has it.
C39_Witness ==
  /\ Len(out) = 1
  /\ out[1].ev = "read"
  /\ out[1].ro
  /\ out[1].variable = 1
  /\ out[1].value = 10
  /\ \E txid \in DOMAIN sites[1].pending_writes :
       /\ txid # out[1].txid
       /\ sites[1].pending_writes[txid] = <<<<1, 5>>>>
       /\ tx_read[txid] = {}
       /\ 1 \in DOMAIN open_tx[txid].sites_accessed
       /\ open_tx[txid].sites_accessed[1] < out[1].start_time

====
